---- MODULE Spec2Model ----
(***************************************************************************)
(* Election Simulation Orchestration Engine (src/app/simulation.py).       *)
(*                                                                         *)
(* The model follows run_election: one coroutine on the event loop (the    *)
(* variable pc), the registration workers of register_voters_parallel,     *)
(* the district coroutines of run_parallel_voting and the vote workers of  *)
(* cast_votes_for_district.  The ledger (the ElectionOrchestrator          *)
(* contract and the node behind web3) is an external collaborator: every   *)
(* mutating call either raises or is confirmed with a receipt.             *)
(*                                                                         *)
(* Worker threads share gas_tracker, a plain dict.  The statement          *)
(* gas_tracker[k] += x is a read of the item followed by a store, so each  *)
(* worker's update is modelled as two steps with the value read kept in    *)
(* the worker's local state.                                               *)
(***************************************************************************)
EXTENDS Integers, Sequences, FiniteSets, TLC

\* ---------------------------------------------------------------- bounds
MaxVoters == 3
MaxDistricts == 3
\* number of rows of candidates.csv
SourceSize == 2
\* receipts report gasUsed in 1..MaxGas
MaxGas == 1
\* inputs of the library functions when called on their own
MaxNumberOfVoters == 6
MaxNumberOfDistricts == 4
MaxDistrictSize == 3
MaxWeight == 2
MaxCandidates == 3
MaxScore == 3
MaxExperience == 2
MaxAge == 2
\* the ledger reports total scores in 0..MaxTally
MaxTally == 1

\* 'gasPrice': w3.to_wei(20, 'gwei'); the eth counter is kept in gwei
GasPrice == 20

GasUnits == 1..MaxGas

\* field order of VotingStrategies (models.py), the order model_dump() keeps
StrategyNames ==
    << "polarized", "random", "strategic_undervoting", "bullet",
       "biased_towards_left_wing_candidates", "biased_towards_right_wing_candidates",
       "biased_towards_experienced_candidates", "biased_towards_young_candidates" >>

NumStrategies == Len(StrategyNames)

\* weight maps a request carries in this model (one weight per field)
WeightMaps ==
    { << 0, 1, 0, 0, 0, 0, 0, 0 >>,
      << 0, 1, 0, 1, 0, 0, 0, 0 >>,
      << 0, 0, 0, 0, 0, 0, 0, 0 >> }

\* InputConfiguration (models.py); the score range joins with the scoring library
Configurations ==
    [ number_of_voters : -1..MaxVoters,
      number_of_districts : -1..MaxDistricts,
      number_of_candidates : -1..(SourceSize + 1),
      voting_strategies : WeightMaps ]

VARIABLES
    config,                   \* the request, immutable
    pc,                       \* position of run_election
    error,                    \* the exception run_election raised, if any
    ledger,                   \* ledger-side state
    calls,                    \* ledger calls issued so far, by kind
    gas_tracker,              \* {"gas": .., "eth": ..}
    charged,                  \* sum of the amounts of all finished increments
    candidates,               \* sampled candidate rows, in sample order
    added,                    \* candidates whose addCandidate was confirmed
    voters_per_district_list,
    districts,                \* the districts list built during setup
    reg,                      \* registration workers, one per district
    registration_results,
    coro,                     \* district coroutines of run_parallel_voting
    vote,                     \* vote workers, one per voter wallet
    reports,                  \* what each cast_votes_for_district returned
    invocation,               \* a library function called on its own (LibrarySpec)
    response                  \* what run_election returned

vars == << config, pc, error, ledger, calls, gas_tracker, charged, candidates, added,
           voters_per_district_list, districts, reg, registration_results,
           coro, vote, reports, invocation, response >>

NoError == [type |-> "none"]
None == << >>

CallKinds == { "deploy", "fund", "addCandidate", "setGradingScale", "createDistrict",
               "startRegistration", "batchRegisterVoters", "startVoting", "castVote",
               "endVoting", "collectResults", "getElectionResults" }

\* ---------------------------------------------------------------- helpers
RECURSIVE SumSeq(_)
SumSeq(s) == IF s = << >> THEN 0 ELSE Head(s) + SumSeq(Tail(s))

Prefix(s, n) == [i \in 1..n |-> s[i]]

MaxOf(S) == CHOOSE x \in S : \A y \in S : y <= x
MinOf(S) == CHOOSE x \in S : \A y \in S : x <= y

\* Python's round() of the quotient p / q: to the nearest integer, a half
\* to the even neighbour.  The quotient is exact here; the floats of the
\* source represent every half that the bounded inputs produce.
PyRound(p, q) ==
    LET num == IF q < 0 THEN 0 - p ELSE p
        den == IF q < 0 THEN 0 - q ELSE q
        f == num \div den
        r == num % den
    IN  IF 2 * r < den THEN f
        ELSE IF 2 * r > den THEN f + 1
        ELSE IF f % 2 = 0 THEN f ELSE f + 1

Issue(kind) == [calls EXCEPT ![kind] = @ + 1]

Raise(type, at) == [type |-> type, at |-> at]

\* track_gas as run by the event-loop thread while no worker is running
TrackGasMain(g) ==
    /\ gas_tracker' = [gas |-> gas_tracker.gas + g, eth |-> gas_tracker.eth + g * GasPrice]
    /\ charged' = [gas |-> charged.gas + g, eth |-> charged.eth + g * GasPrice]

Init ==
    /\ config \in Configurations
    /\ pc = "connect"
    /\ error = NoError
    /\ ledger = [state |-> "none", candidates |-> 0, districts |-> 0,
                 registered |-> 0, batches |-> {}, votes |-> 0]
    /\ calls = [k \in CallKinds |-> 0]
    /\ gas_tracker = [gas |-> 0, eth |-> 0]
    /\ charged = [gas |-> 0, eth |-> 0]
    /\ candidates = << >>
    /\ added = << >>
    /\ voters_per_district_list = << >>
    /\ districts = << >>
    /\ reg = << >>
    /\ registration_results = << >>
    /\ coro = << >>
    /\ vote = << >>
    /\ reports = << >>
    /\ invocation = None
    /\ response = None

\* ---------------------------------------------------------------- pure functions
\* variant: the first guard lets one district too many through
VotersPerDistrictError_OffByOne(V, D) ==
    IF D > V + 1 THEN "Number of districts must be larger or equal to the number of voters"
    ELSE IF D <= 0 THEN "Number of districts must be positive"
    ELSE IF V < 0 THEN "Number of voters cannot be negative"
    ELSE "ok"

\* the three guards of calculate_voters_per_district, in source order
VotersPerDistrictError(V, D) ==
    IF D > V THEN "Number of districts must be larger or equal to the number of voters"
    ELSE IF D <= 0 THEN "Number of districts must be positive"
    ELSE IF V < 0 THEN "Number of voters cannot be negative"
    ELSE "ok"

\* variant: every voter goes to the first district
calculate_voters_per_district_AllToFirst(V, D) ==
    [district \in 1..D |-> IF district = 1 THEN V ELSE 0]

\* variant: the extra voters go to the last districts
calculate_voters_per_district_ExtraLast(V, D) ==
    LET base_voters_per_district == V \div D
        extra_voters == V % D
    IN  [district \in 1..D |->
            IF district > D - extra_voters
            THEN base_voters_per_district + 1
            ELSE base_voters_per_district]

calculate_voters_per_district(V, D) ==
    LET base_voters_per_district == V \div D
        extra_voters == V % D
    IN  [district \in 1..D |->
            IF district - 1 < extra_voters
            THEN base_voters_per_district + 1
            ELSE base_voters_per_district]

\* variant: every slice starts at the head of the wallet list
DistrictWallets_FromHead(vpd, district) ==
    LET start_index == 0
        end_index == start_index + vpd[district + 1]
    IN  [k \in 1..(end_index - start_index) |-> start_index + k - 1]

\* voter_wallets[start_index:end_index] of the createDistrict loop; a wallet is
\* named by its index, which stands for its (unique) address
DistrictWallets(vpd, district) ==
    LET start_index == SumSeq(Prefix(vpd, district))
        end_index == start_index + vpd[district + 1]
    IN  [k \in 1..(end_index - start_index) |-> start_index + k - 1]

\* random.sample(records, k): the sequences of k distinct rows
Samples(k) ==
    { s \in [1..k -> 1..SourceSize] : \A i, j \in 1..k : i # j => s[i] # s[j] }

\* ---------------------------------------------------------------- setup
Abort(type, at) ==
    /\ pc' = "raised"
    /\ error' = Raise(type, at)

\* assert w3.is_connected()
Connect ==
    /\ pc = "connect"
    /\ \E connected \in BOOLEAN :
         IF connected
         THEN pc' = "deploy" /\ error' = error
         ELSE Abort("AssertionError", "connect")
    /\ UNCHANGED << invocation, response, config, ledger, calls, gas_tracker, charged, candidates, added,
                    voters_per_district_list, districts, reg, registration_results,
                    coro, vote, reports >>

\* ElectionOrchestrator.constructor().transact() and track_gas
Deploy ==
    /\ pc = "deploy"
    /\ calls' = Issue("deploy")
    /\ \E ok \in BOOLEAN, g \in GasUnits :
         IF ok
         THEN /\ ledger' = [ledger EXCEPT !.state = "deployed"]
              /\ TrackGasMain(g)
              /\ pc' = "generate_candidates"
              /\ error' = error
         ELSE /\ Abort("LedgerError", "deploy")
              /\ UNCHANGED << ledger, gas_tracker, charged >>
    /\ UNCHANGED << invocation, response, config, candidates, added, voters_per_district_list, districts,
                    reg, registration_results, coro, vote, reports >>

\* generate_candidates(config.number_of_candidates)
GenerateCandidates ==
    /\ pc = "generate_candidates"
    /\ LET n == config.number_of_candidates IN
         IF n > SourceSize \/ n < 0
         THEN /\ Abort("ValueError", "generate_candidates")
              /\ candidates' = candidates
         ELSE /\ candidates' \in Samples(n)
              /\ pc' = "calculate_voters_per_district"
              /\ error' = error
    /\ UNCHANGED << invocation, response, config, ledger, calls, gas_tracker, charged, added,
                    voters_per_district_list, districts, reg, registration_results,
                    coro, vote, reports >>

\* calculate_voters_per_district, then generate_voter_wallets and
\* fund_wallets_batch (one transfer per wallet, a failed transfer is only printed)
CalculateVoters ==
    /\ pc = "calculate_voters_per_district"
    /\ LET V == config.number_of_voters
           D == config.number_of_districts
       IN IF VotersPerDistrictError(V, D) # "ok"
          THEN /\ Abort("ValueError", "calculate_voters_per_district")
               /\ UNCHANGED << voters_per_district_list, calls >>
          ELSE /\ voters_per_district_list' = calculate_voters_per_district(V, D)
               /\ calls' = [calls EXCEPT !["fund"] = @ + V]
               /\ pc' = IF Len(candidates) = 0 THEN "setGradingScale" ELSE "addCandidate"
               /\ error' = error
    /\ UNCHANGED << invocation, response, config, ledger, gas_tracker, charged, candidates, added, districts,
                    reg, registration_results, coro, vote, reports >>

\* AddCandidate walking the sample from its last row to its first
AddCandidate_Reversed ==
    /\ pc = "addCandidate"
    /\ calls' = Issue("addCandidate")
    /\ LET candidate == candidates[Len(candidates) - Len(added)] IN
       \E ok \in BOOLEAN, g \in GasUnits :
         IF ok
         THEN /\ ledger' = [ledger EXCEPT !.candidates = @ + 1]
              /\ added' = Append(added, candidate)
              /\ TrackGasMain(g)
              /\ pc' = IF Len(added) + 1 = Len(candidates)
                       THEN "setGradingScale" ELSE "addCandidate"
              /\ error' = error
         ELSE /\ Abort("LedgerError", "addCandidate")
              /\ UNCHANGED << ledger, added, gas_tracker, charged >>
    /\ UNCHANGED << invocation, response, config, candidates, voters_per_district_list, districts, reg,
                    registration_results, coro, vote, reports >>

\* one iteration of "for candidate in candidates"
AddCandidate ==
    /\ pc = "addCandidate"
    /\ calls' = Issue("addCandidate")
    /\ LET candidate == candidates[Len(added) + 1] IN
       \E ok \in BOOLEAN, g \in GasUnits :
         IF ok
         THEN /\ ledger' = [ledger EXCEPT !.candidates = @ + 1]
              /\ added' = Append(added, candidate)
              /\ TrackGasMain(g)
              /\ pc' = IF Len(added) + 1 = Len(candidates)
                       THEN "setGradingScale" ELSE "addCandidate"
              /\ error' = error
         ELSE /\ Abort("LedgerError", "addCandidate")
              /\ UNCHANGED << ledger, added, gas_tracker, charged >>
    /\ UNCHANGED << invocation, response, config, candidates, voters_per_district_list, districts, reg,
                    registration_results, coro, vote, reports >>

SetGradingScale ==
    /\ pc = "setGradingScale"
    /\ calls' = Issue("setGradingScale")
    /\ \E ok \in BOOLEAN, g \in GasUnits :
         IF ok
         THEN /\ TrackGasMain(g)
              /\ pc' = "createDistrict"
              /\ error' = error
         ELSE /\ Abort("LedgerError", "setGradingScale")
              /\ UNCHANGED << gas_tracker, charged >>
    /\ UNCHANGED << invocation, response, config, ledger, candidates, added, voters_per_district_list,
                    districts, reg, registration_results, coro, vote, reports >>

\* one iteration of "for district in range(number_of_districts)"
CreateDistrict ==
    /\ pc = "createDistrict"
    /\ calls' = Issue("createDistrict")
    /\ LET district == Len(districts) IN
       \E ok \in BOOLEAN, g \in GasUnits :
         IF ok
         THEN /\ ledger' = [ledger EXCEPT !.districts = @ + 1]
              /\ TrackGasMain(g)
              /\ districts' = Append(districts,
                    [ id |-> district,
                      voters |-> DistrictWallets(voters_per_district_list, district),
                      has_strategies |-> FALSE,
                      strategies |-> << >> ])
              /\ pc' = IF district + 1 = config.number_of_districts
                       THEN "startRegistration" ELSE "createDistrict"
              /\ error' = error
         ELSE /\ Abort("LedgerError", "createDistrict")
              /\ UNCHANGED << ledger, districts, gas_tracker, charged >>
    /\ UNCHANGED << invocation, response, config, candidates, added, voters_per_district_list, reg,
                    registration_results, coro, vote, reports >>

\* ---------------------------------------------------------------- strategy apportionment
\* variant: the list is ordered by index alone, whatever the remainders
RemainderRank_IndexOnly(rem, i) ==
    Cardinality({ j \in 1..NumStrategies : j > i })

\* sorted(((raw[i] - counts[i], i) ...), reverse=True): position of strategy i in
\* the list, counted from 0; tuples compare by remainder, then by index
RemainderRank(rem, i) ==
    Cardinality({ j \in 1..NumStrategies :
                    \/ rem[j] > rem[i]
                    \/ (rem[j] = rem[i] /\ j > i) })

\* variant: the leftover seats are not handed out
StrategyCounts_FloorOnly(n, w) ==
    LET total_w == SumSeq(w)
    IN  [i \in 1..NumStrategies |-> (w[i] * n) \div total_w]

\* counts after the leftover seats are handed out; weights are w[i] / total_w and
\* raw[i] = weights[i] * n, kept as the fraction (w[i] * n) / total_w
StrategyCounts(n, w) ==
    LET total_w == SumSeq(w)
        floors == [i \in 1..NumStrategies |-> (w[i] * n) \div total_w]
        rem == [i \in 1..NumStrategies |-> (w[i] * n) % total_w]
        leftover == n - SumSeq(floors)
    IN  [i \in 1..NumStrategies |->
            IF RemainderRank(rem, i) < leftover THEN floors[i] + 1 ELSE floors[i]]

RECURSIVE StrategyPool(_, _)
StrategyPool(counts, i) ==
    IF i > NumStrategies THEN << >>
    ELSE [k \in 1..counts[i] |-> StrategyNames[i]] \o StrategyPool(counts, i + 1)

\* sum(weights) = 0 makes w / total_w raise ZeroDivisionError
DistributeRaises(w) == SumSeq(w) = 0

\* variant: the pool is built from the last strategy to the first
distribute_strategies_to_voters_LastFirst(district_voters, w) ==
    LET pool == StrategyPool(StrategyCounts(Len(district_voters), w), 1)
    IN  [k \in 1..Len(pool) |-> pool[Len(pool) + 1 - k]]

distribute_strategies_to_voters(district_voters, w) ==
    StrategyPool(StrategyCounts(Len(district_voters), w), 1)

\* ---------------------------------------------------------------- registration
Worker(at) == [pc |-> at, gas_used |-> 0, loaded |-> 0, attempts |-> 0, result |-> None]

Finished(w) == w.pc = "done"

StartRegistration ==
    /\ pc = "startRegistration"
    /\ calls' = Issue("startRegistration")
    /\ \E ok \in BOOLEAN, g \in GasUnits :
         IF ok
         THEN /\ ledger' = [ledger EXCEPT !.state = "registration"]
              /\ TrackGasMain(g)
              /\ pc' = "register_voters_parallel"
              /\ error' = error
         ELSE /\ Abort("LedgerError", "startRegistration")
              /\ UNCHANGED << ledger, gas_tracker, charged >>
    /\ UNCHANGED << invocation, response, config, candidates, added, voters_per_district_list, districts,
                    reg, registration_results, coro, vote, reports >>

\* variant: the pools are attached when the tasks are created
RegisterVotersParallel_AttachFirst ==
    /\ pc = "register_voters_parallel"
    /\ reg' = [k \in 1..Len(districts) |-> Worker("call")]
    /\ districts' = IF DistributeRaises(config.voting_strategies)
                    THEN districts
                    ELSE [k \in DOMAIN districts |->
                            [districts[k] EXCEPT
                               !.has_strategies = TRUE,
                               !.strategies = distribute_strategies_to_voters(
                                                 districts[k].voters, config.voting_strategies)]]
    /\ pc' = "gather_registrations"
    /\ UNCHANGED << invocation, response, config, error, ledger, calls, gas_tracker, charged, candidates, added,
                    voters_per_district_list, registration_results,
                    coro, vote, reports >>

\* the list comprehension of run_in_executor calls: one task per district
RegisterVotersParallel ==
    /\ pc = "register_voters_parallel"
    /\ reg' = [k \in 1..Len(districts) |-> Worker("call")]
    /\ pc' = "gather_registrations"
    /\ UNCHANGED << invocation, response, config, error, ledger, calls, gas_tracker, charged, candidates, added,
                    voters_per_district_list, districts, registration_results,
                    coro, vote, reports >>

\* RegisterCall without the skip branch: an empty batch is sent like any other
RegisterCall_NoSkip(k) ==
    /\ k \in DOMAIN reg
    /\ reg[k].pc = "call"
    /\ LET district == districts[k] IN
       /\ calls' = Issue("batchRegisterVoters")
       /\ \E ok \in BOOLEAN, g \in GasUnits :
            IF ok
            THEN /\ ledger' = [ledger EXCEPT !.registered = @ + Len(district.voters),
                                             !.batches = @ \cup {district.id}]
                 /\ reg' = [reg EXCEPT ![k].pc = "gas_load", ![k].gas_used = g,
                                       ![k].attempts = @ + 1]
            ELSE /\ ledger' = ledger
                 /\ reg' = [reg EXCEPT ![k].pc = "done", ![k].attempts = @ + 1,
                                       ![k].result = [success |-> FALSE,
                                                      districtId |-> district.id,
                                                      error |-> "LedgerError"]]
    /\ UNCHANGED << invocation, response, config, pc, error, gas_tracker, charged, candidates, added,
                    voters_per_district_list, districts, registration_results,
                    coro, vote, reports >>

\* RegisterCall giving up, without a ledger call, once another district has failed
RegisterCall_StopOnFailure(k) ==
    /\ k \in DOMAIN reg
    /\ reg[k].pc = "call"
    /\ LET district == districts[k]
           other_failed == \E j \in DOMAIN reg : Finished(reg[j]) /\ ~reg[j].result.success
       IN
       IF other_failed
       THEN /\ reg' = [reg EXCEPT ![k].pc = "done",
                                  ![k].result = [success |-> FALSE, districtId |-> district.id,
                                                 error |-> "Cancelled"]]
            /\ UNCHANGED << ledger, calls >>
       ELSE /\ calls' = Issue("batchRegisterVoters")
            /\ \E ok \in BOOLEAN, g \in GasUnits :
                 IF ok
                 THEN /\ ledger' = [ledger EXCEPT !.registered = @ + Len(district.voters),
                                                !.batches = @ \cup {district.id}]
                      /\ reg' = [reg EXCEPT ![k].pc = "gas_load", ![k].gas_used = g,
                                            ![k].attempts = @ + 1]
                 ELSE /\ ledger' = ledger
                      /\ reg' = [reg EXCEPT ![k].pc = "done", ![k].attempts = @ + 1,
                                            ![k].result = [success |-> FALSE,
                                                           districtId |-> district.id,
                                                           error |-> "LedgerError"]]
    /\ UNCHANGED << invocation, response, config, pc, error, gas_tracker, charged, candidates, added,
                    voters_per_district_list, districts, registration_results,
                    coro, vote, reports >>

\* register_district_sync up to the receipt: the skip branch, or batchRegisterVoters
RegisterCall(k) ==
    /\ k \in DOMAIN reg
    /\ reg[k].pc = "call"
    /\ LET district == districts[k] IN
       IF Len(district.voters) = 0
       THEN /\ reg' = [reg EXCEPT ![k].pc = "done",
                                  ![k].result = [success |-> TRUE, districtId |-> district.id,
                                                 votersRegistered |-> 0, skipped |-> TRUE]]
            /\ UNCHANGED << ledger, calls >>
       ELSE /\ calls' = Issue("batchRegisterVoters")
            /\ \E ok \in BOOLEAN, g \in GasUnits :
                 IF ok
                 THEN /\ ledger' = [ledger EXCEPT !.registered = @ + Len(district.voters),
                                                !.batches = @ \cup {district.id}]
                      /\ reg' = [reg EXCEPT ![k].pc = "gas_load", ![k].gas_used = g,
                                            ![k].attempts = @ + 1]
                 ELSE /\ ledger' = ledger
                      /\ reg' = [reg EXCEPT ![k].pc = "done", ![k].attempts = @ + 1,
                                            ![k].result = [success |-> FALSE,
                                                           districtId |-> district.id,
                                                           error |-> "LedgerError"]]
    /\ UNCHANGED << invocation, response, config, pc, error, gas_tracker, charged, candidates, added,
                    voters_per_district_list, districts, registration_results,
                    coro, vote, reports >>

\* gas_tracker['gas'] += gas_used : the read
RegisterGasLoad(k) ==
    /\ k \in DOMAIN reg
    /\ reg[k].pc = "gas_load"
    /\ reg' = [reg EXCEPT ![k].pc = "gas_store", ![k].loaded = gas_tracker.gas]
    /\ UNCHANGED << invocation, response, config, pc, error, ledger, calls, gas_tracker, charged, candidates,
                    added, voters_per_district_list, districts, registration_results,
                    coro, vote, reports >>

\* gas_tracker['gas'] += gas_used : the store
RegisterGasStore(k) ==
    /\ k \in DOMAIN reg
    /\ reg[k].pc = "gas_store"
    /\ gas_tracker' = [gas_tracker EXCEPT !.gas = reg[k].loaded + reg[k].gas_used]
    /\ charged' = [charged EXCEPT !.gas = @ + reg[k].gas_used]
    /\ reg' = [reg EXCEPT ![k].pc = "eth_load", ![k].loaded = 0]
    /\ UNCHANGED << invocation, response, config, pc, error, ledger, calls, candidates, added,
                    voters_per_district_list, districts, registration_results,
                    coro, vote, reports >>

\* gas_tracker['eth'] += eth_used : the read
RegisterEthLoad(k) ==
    /\ k \in DOMAIN reg
    /\ reg[k].pc = "eth_load"
    /\ reg' = [reg EXCEPT ![k].pc = "eth_store", ![k].loaded = gas_tracker.eth]
    /\ UNCHANGED << invocation, response, config, pc, error, ledger, calls, gas_tracker, charged, candidates,
                    added, voters_per_district_list, districts, registration_results,
                    coro, vote, reports >>

\* the store of gas_tracker['eth'], then the rest of the try block: the strategy
\* pool is attached and the success outcome returned, or the except branch runs
RegisterEthStore(k) ==
    /\ k \in DOMAIN reg
    /\ reg[k].pc = "eth_store"
    /\ gas_tracker' = [gas_tracker EXCEPT !.eth = reg[k].loaded + reg[k].gas_used * GasPrice]
    /\ charged' = [charged EXCEPT !.eth = @ + reg[k].gas_used * GasPrice]
    /\ LET district == districts[k] IN
       IF DistributeRaises(config.voting_strategies)
       THEN /\ districts' = districts
            /\ reg' = [reg EXCEPT ![k].pc = "done", ![k].loaded = 0,
                                  ![k].result = [success |-> FALSE, districtId |-> district.id,
                                                 error |-> "ZeroDivisionError"]]
       ELSE /\ districts' = [districts EXCEPT
                    ![k].has_strategies = TRUE,
                    ![k].strategies = distribute_strategies_to_voters(district.voters,
                                                                      config.voting_strategies)]
            /\ reg' = [reg EXCEPT ![k].pc = "done", ![k].loaded = 0,
                                  ![k].result = [success |-> TRUE, districtId |-> district.id,
                                                 votersRegistered |-> Len(district.voters)]]
    /\ UNCHANGED << invocation, response, config, pc, error, ledger, calls, candidates, added,
                    voters_per_district_list, registration_results, coro, vote, reports >>

\* results = await asyncio.gather(*tasks), and the pool's shutdown on leaving "with"
GatherRegistrations ==
    /\ pc = "gather_registrations"
    /\ \A k \in DOMAIN reg : Finished(reg[k])
    /\ registration_results' = [k \in DOMAIN reg |-> reg[k].result]
    /\ pc' = "check_registration_results"
    /\ UNCHANGED << invocation, response, config, error, ledger, calls, gas_tracker, charged, candidates, added,
                    voters_per_district_list, districts, reg, coro, vote, reports >>

\* CheckRegistrationResults expecting every district's voters, failed or not
CheckRegistrationResults_CountAll ==
    /\ pc = "check_registration_results"
    /\ LET total_voters_registered == ledger.registered
           expected_registrations ==
               SumSeq([k \in DOMAIN registration_results |-> Len(districts[k].voters)])
       IN IF total_voters_registered = expected_registrations
          THEN pc' = "startVoting" /\ error' = error
          ELSE /\ pc' = "raised"
               /\ error' = [type |-> "AssertionError", at |-> "check_registration_results",
                            registered |-> total_voters_registered,
                            expected |-> expected_registrations]
    /\ UNCHANGED << invocation, response, config, ledger, calls, gas_tracker, charged, candidates, added,
                    voters_per_district_list, districts, reg, registration_results,
                    coro, vote, reports >>

\* check_registration_results: getElectionStats()[1] against the local sum
CheckRegistrationResults ==
    /\ pc = "check_registration_results"
    /\ LET successful_registrations ==
               { k \in DOMAIN registration_results : registration_results[k].success }
           total_voters_registered == ledger.registered
           expected_registrations ==
               SumSeq([k \in DOMAIN registration_results |->
                         IF k \in successful_registrations
                         THEN registration_results[k].votersRegistered ELSE 0])
       IN IF total_voters_registered = expected_registrations
          THEN pc' = "startVoting" /\ error' = error
          ELSE /\ pc' = "raised"
               /\ error' = [type |-> "AssertionError", at |-> "check_registration_results",
                            registered |-> total_voters_registered,
                            expected |-> expected_registrations]
    /\ UNCHANGED << invocation, response, config, ledger, calls, gas_tracker, charged, candidates, added,
                    voters_per_district_list, districts, reg, registration_results,
                    coro, vote, reports >>

\* ---------------------------------------------------------------- voting
\* strategies whose function raises ValueError on an empty candidate list
\* (random.randrange(0), max() of an empty sequence)
RaisesOnEmpty == { "strategic_undervoting", "bullet",
                   "biased_towards_experienced_candidates",
                   "biased_towards_young_candidates" }

\* the first position of the vote_tasks comprehension at which evaluating the
\* arguments raises (strategies[i] out of range, or generate_scores raising);
\* Len(voter_wallets) + 1 when none does
FirstRaising(district) ==
    LET n == Len(district.voters)
        bad == { i \in 1..n :
                   \/ i > Len(district.strategies)
                   \/ (Len(candidates) = 0 /\ district.strategies[i] \in RaisesOnEmpty) }
    IN  IF bad = {} THEN n + 1 ELSE CHOOSE i \in bad : \A j \in bad : i <= j

StartVoting ==
    /\ pc = "startVoting"
    /\ calls' = Issue("startVoting")
    /\ \E ok \in BOOLEAN, g \in GasUnits :
         IF ok
         THEN /\ ledger' = [ledger EXCEPT !.state = "voting"]
              /\ TrackGasMain(g)
              /\ pc' = "run_parallel_voting"
              /\ error' = error
         ELSE /\ Abort("LedgerError", "startVoting")
              /\ UNCHANGED << ledger, gas_tracker, charged >>
    /\ UNCHANGED << invocation, response, config, candidates, added, voters_per_district_list, districts,
                    reg, registration_results, coro, vote, reports >>

\* asyncio.gather(*voting_tasks) wraps one task per district; none has run yet
RunParallelVoting ==
    /\ pc = "run_parallel_voting"
    /\ coro' = [k \in 1..Len(districts) |-> [state |-> "new", error |-> "none"]]
    /\ vote' = [v \in 1..config.number_of_voters |-> Worker("idle")]
    /\ reports' = [k \in 1..Len(districts) |-> None]
    /\ pc' = "gather_voting"
    /\ UNCHANGED << invocation, response, config, error, ledger, calls, gas_tracker, charged, candidates, added,
                    voters_per_district_list, districts, reg, registration_results >>

\* CastVotesForDistrict scoring at random when the district has no strategy pool
CastVotesForDistrict_DefaultRandom(k) ==
    /\ pc = "gather_voting"
    /\ k \in DOMAIN coro
    /\ coro[k].state = "new"
    /\ \A j \in 1..(k - 1) : coro[j].state # "new"
    /\ LET district == districts[k]
           first == FirstRaising(district)
           submitted == IF district.has_strategies THEN first - 1 ELSE Len(district.voters)
       IN /\ vote' = [v \in DOMAIN vote |->
                        IF \E i \in 1..submitted : district.voters[i] = v - 1
                        THEN LET i == CHOOSE i \in 1..submitted : district.voters[i] = v - 1
                             IN [ pc |-> "call", gas_used |-> 0, loaded |-> 0, attempts |-> 0,
                                  result |-> None,
                                  district_id |-> district.id, voter_index |-> i - 1,
                                  voter_address |-> district.voters[i],
                                  strategy |-> IF district.has_strategies
                                               THEN district.strategies[i] ELSE "random" ]
                        ELSE vote[v]]
          /\ coro' = [coro EXCEPT ![k] =
                        IF ~district.has_strategies
                        THEN [state |-> "awaiting", error |-> "none"]
                        ELSE IF first <= Len(district.voters)
                        THEN [state |-> "raised",
                              error |-> IF first > Len(district.strategies)
                                        THEN "IndexError" ELSE "ValueError"]
                        ELSE [state |-> "awaiting", error |-> "none"]]
    /\ UNCHANGED << invocation, response, config, pc, error, ledger, calls, gas_tracker, charged, candidates,
                    added, voters_per_district_list, districts, reg, registration_results,
                    reports >>

\* first step of cast_votes_for_district, in task order: the reads of the
\* district's keys and the vote_tasks comprehension, up to the await
CastVotesForDistrict(k) ==
    /\ pc = "gather_voting"
    /\ k \in DOMAIN coro
    /\ coro[k].state = "new"
    /\ \A j \in 1..(k - 1) : coro[j].state # "new"
    /\ LET district == districts[k]
           first == FirstRaising(district)
           submitted == IF district.has_strategies THEN first - 1 ELSE 0
       IN /\ vote' = [v \in DOMAIN vote |->
                        IF \E i \in 1..submitted : district.voters[i] = v - 1
                        THEN LET i == CHOOSE i \in 1..submitted : district.voters[i] = v - 1
                             IN [ pc |-> "call", gas_used |-> 0, loaded |-> 0, attempts |-> 0,
                                  result |-> None,
                                  district_id |-> district.id, voter_index |-> i - 1,
                                  voter_address |-> district.voters[i],
                                  strategy |-> district.strategies[i] ]
                        ELSE vote[v]]
          /\ coro' = [coro EXCEPT ![k] =
                        IF ~district.has_strategies
                        THEN [state |-> "raised", error |-> "KeyError"]
                        ELSE IF first <= Len(district.voters)
                        THEN [state |-> "raised",
                              error |-> IF first > Len(district.strategies)
                                        THEN "IndexError" ELSE "ValueError"]
                        ELSE [state |-> "awaiting", error |-> "none"]]
    /\ UNCHANGED << invocation, response, config, pc, error, ledger, calls, gas_tracker, charged, candidates,
                    added, voters_per_district_list, districts, reg, registration_results,
                    reports >>

\* CastVoteCall sending the vote a second time when the first attempt fails
CastVoteCall_Retry(v) ==
    /\ v \in DOMAIN vote
    /\ vote[v].pc = "call"
    /\ calls' = Issue("castVote")
    /\ \E ok \in BOOLEAN, g \in GasUnits :
         IF ok
         THEN /\ ledger' = [ledger EXCEPT !.votes = @ + 1]
              /\ vote' = [vote EXCEPT ![v].pc = "gas_load", ![v].gas_used = g,
                                      ![v].attempts = @ + 1]
         ELSE /\ ledger' = ledger
              /\ vote' = IF vote[v].attempts = 0
                         THEN [vote EXCEPT ![v].attempts = @ + 1]
                         ELSE [vote EXCEPT ![v].pc = "done", ![v].attempts = @ + 1,
                                           ![v].result = [district |-> vote[v].district_id,
                                                          voter |-> vote[v].voter_index,
                                                          success |-> FALSE,
                                                          error |-> "LedgerError"]]
    /\ UNCHANGED << invocation, response, config, pc, error, gas_tracker, charged, candidates, added,
                    voters_per_district_list, districts, reg, registration_results,
                    coro, reports >>

\* cast_vote_sync up to the receipt: nonce, estimate_gas, sign, send, wait
CastVoteCall(v) ==
    /\ v \in DOMAIN vote
    /\ vote[v].pc = "call"
    /\ calls' = Issue("castVote")
    /\ \E ok \in BOOLEAN, g \in GasUnits :
         IF ok
         THEN /\ ledger' = [ledger EXCEPT !.votes = @ + 1]
              /\ vote' = [vote EXCEPT ![v].pc = "gas_load", ![v].gas_used = g,
                                      ![v].attempts = @ + 1]
         ELSE /\ ledger' = ledger
              /\ vote' = [vote EXCEPT ![v].pc = "done", ![v].attempts = @ + 1,
                                      ![v].result = [district |-> vote[v].district_id,
                                                     voter |-> vote[v].voter_index,
                                                     success |-> FALSE,
                                                     error |-> "LedgerError"]]
    /\ UNCHANGED << invocation, response, config, pc, error, gas_tracker, charged, candidates, added,
                    voters_per_district_list, districts, reg, registration_results,
                    coro, reports >>

CastVoteGasLoad(v) ==
    /\ v \in DOMAIN vote
    /\ vote[v].pc = "gas_load"
    /\ vote' = [vote EXCEPT ![v].pc = "gas_store", ![v].loaded = gas_tracker.gas]
    /\ UNCHANGED << invocation, response, config, pc, error, ledger, calls, gas_tracker, charged, candidates,
                    added, voters_per_district_list, districts, reg, registration_results,
                    coro, reports >>

CastVoteGasStore(v) ==
    /\ v \in DOMAIN vote
    /\ vote[v].pc = "gas_store"
    /\ gas_tracker' = [gas_tracker EXCEPT !.gas = vote[v].loaded + vote[v].gas_used]
    /\ charged' = [charged EXCEPT !.gas = @ + vote[v].gas_used]
    /\ vote' = [vote EXCEPT ![v].pc = "eth_load", ![v].loaded = 0]
    /\ UNCHANGED << invocation, response, config, pc, error, ledger, calls, candidates, added,
                    voters_per_district_list, districts, reg, registration_results,
                    coro, reports >>

CastVoteEthLoad(v) ==
    /\ v \in DOMAIN vote
    /\ vote[v].pc = "eth_load"
    /\ vote' = [vote EXCEPT ![v].pc = "eth_store", ![v].loaded = gas_tracker.eth]
    /\ UNCHANGED << invocation, response, config, pc, error, ledger, calls, gas_tracker, charged, candidates,
                    added, voters_per_district_list, districts, reg, registration_results,
                    coro, reports >>

\* the store of gas_tracker['eth'] and the success outcome
CastVoteEthStore(v) ==
    /\ v \in DOMAIN vote
    /\ vote[v].pc = "eth_store"
    /\ gas_tracker' = [gas_tracker EXCEPT !.eth = vote[v].loaded + vote[v].gas_used * GasPrice]
    /\ charged' = [charged EXCEPT !.eth = @ + vote[v].gas_used * GasPrice]
    /\ vote' = [vote EXCEPT ![v].pc = "done", ![v].loaded = 0,
                            ![v].result = [district |-> vote[v].district_id,
                                           voter |-> vote[v].voter_index,
                                           success |-> TRUE,
                                           gasUsed |-> vote[v].gas_used]]
    /\ UNCHANGED << invocation, response, config, pc, error, ledger, calls, candidates, added,
                    voters_per_district_list, districts, reg, registration_results,
                    coro, reports >>

\* CastVotesReturn counting every outcome as a successful vote
CastVotesReturn_CountAll(k) ==
    /\ k \in DOMAIN coro
    /\ coro[k].state = "awaiting"
    /\ LET district == districts[k]
           results == [i \in 1..Len(district.voters) |-> vote[district.voters[i] + 1].result]
       IN /\ \A i \in 1..Len(district.voters) : Finished(vote[district.voters[i] + 1])
          /\ reports' = [reports EXCEPT ![k] =
                [ districtId |-> district.id,
                  totalVoters |-> Len(district.voters),
                  successfulVotes |-> Len(results),
                  results |-> results ]]
    /\ coro' = [coro EXCEPT ![k].state = "done"]
    /\ UNCHANGED << invocation, response, config, pc, error, ledger, calls, gas_tracker, charged, candidates,
                    added, voters_per_district_list, districts, reg, registration_results,
                    vote >>

\* results = await asyncio.gather(*vote_tasks) of one district, and its report
CastVotesReturn(k) ==
    /\ k \in DOMAIN coro
    /\ coro[k].state = "awaiting"
    /\ LET district == districts[k]
           results == [i \in 1..Len(district.voters) |-> vote[district.voters[i] + 1].result]
       IN /\ \A i \in 1..Len(district.voters) : Finished(vote[district.voters[i] + 1])
          /\ reports' = [reports EXCEPT ![k] =
                [ districtId |-> district.id,
                  totalVoters |-> Len(district.voters),
                  successfulVotes |-> Cardinality({ i \in DOMAIN results : results[i].success }),
                  results |-> results ]]
    /\ coro' = [coro EXCEPT ![k].state = "done"]
    /\ UNCHANGED << invocation, response, config, pc, error, ledger, calls, gas_tracker, charged, candidates,
                    added, voters_per_district_list, districts, reg, registration_results,
                    vote >>

\* await asyncio.gather(*voting_tasks): the first exception of a district
\* coroutine is raised in run_election once every task has taken its first step
GatherVotingRaises ==
    /\ pc = "gather_voting"
    /\ \A k \in DOMAIN coro : coro[k].state # "new"
    /\ \E k \in DOMAIN coro :
         /\ coro[k].state = "raised"
         /\ \A j \in 1..(k - 1) : coro[j].state # "raised"
         /\ Abort(coro[k].error, "run_parallel_voting")
    /\ UNCHANGED << invocation, response, config, ledger, calls, gas_tracker, charged, candidates, added,
                    voters_per_district_list, districts, reg, registration_results,
                    coro, vote, reports >>

\* GatherVoting resuming as soon as the district tasks have started
GatherVoting_NoWait ==
    /\ pc = "gather_voting"
    /\ \A k \in DOMAIN coro : coro[k].state \in { "awaiting", "done" }
    /\ pc' = "endVoting"
    /\ UNCHANGED << invocation, response, config, error, ledger, calls, gas_tracker, charged, candidates, added,
                    voters_per_district_list, districts, reg, registration_results,
                    coro, vote, reports >>

\* await asyncio.gather(*voting_tasks) returning: every district task is done
GatherVoting ==
    /\ pc = "gather_voting"
    /\ \A k \in DOMAIN coro : coro[k].state = "done"
    /\ pc' = "endVoting"
    /\ UNCHANGED << invocation, response, config, error, ledger, calls, gas_tracker, charged, candidates, added,
                    voters_per_district_list, districts, reg, registration_results,
                    coro, vote, reports >>

\* ---------------------------------------------------------------- finalize, collect
EndVoting ==
    /\ pc = "endVoting"
    /\ calls' = Issue("endVoting")
    /\ \E ok \in BOOLEAN, g \in GasUnits :
         IF ok
         THEN /\ ledger' = [ledger EXCEPT !.state = "ended"]
              /\ TrackGasMain(g)
              /\ pc' = "collectResults"
              /\ error' = error
         ELSE /\ Abort("LedgerError", "endVoting")
              /\ UNCHANGED << ledger, gas_tracker, charged >>
    /\ UNCHANGED << invocation, response, config, candidates, added, voters_per_district_list, districts,
                    reg, registration_results, coro, vote, reports >>

CollectResults ==
    /\ pc = "collectResults"
    /\ calls' = Issue("collectResults")
    /\ \E ok \in BOOLEAN, g \in GasUnits :
         IF ok
         THEN /\ ledger' = [ledger EXCEPT !.state = "collected"]
              /\ TrackGasMain(g)
              /\ pc' = "getElectionResults"
              /\ error' = error
         ELSE /\ Abort("LedgerError", "collectResults")
              /\ UNCHANGED << ledger, gas_tracker, charged >>
    /\ UNCHANGED << invocation, response, config, candidates, added, voters_per_district_list, districts,
                    reg, registration_results, coro, vote, reports >>

\* ---------------------------------------------------------------- result aggregation
\* rows of candidates.csv, all values strings as csv.DictReader gives them;
\* two rows may share a name or a party
CandidateRow(i) ==
    [ name |-> IF i % 2 = 1 THEN "Ada" ELSE "Bo",
      party |-> IF (i - 1) % 4 < 2 THEN "Red" ELSE "Blue",
      political_position |-> IF i % 3 = 1 THEN "Left" ELSE IF i % 3 = 2 THEN "Right" ELSE "Center",
      age |-> IF i % 2 = 1 THEN "41" ELSE "67",
      gender |-> IF i % 2 = 1 THEN "F" ELSE "M",
      experience |-> IF i % 3 = 0 THEN "0" ELSE "12" ]

fallback_candidate(name, party) ==
    [ name |-> name, party |-> party, political_position |-> "Unknown",
      age |-> "Unknown", gender |-> "Unknown", experience |-> "Unknown" ]

\* variant: the join looks at the name only
Combined_NameOnly(cands, results) ==
    [ i \in 1..Len(results) |->
        LET matching == { k \in 1..Len(cands) : cands[k].name = results[i].name }
        IN  [ candidate |-> IF matching # {} THEN cands[MinOf(matching)]
                            ELSE fallback_candidate(results[i].name, results[i].party),
              total |-> results[i].total_score,
              votes |-> results[i].votes ] ]

\* the loop over zip(names, parties, total_scores, vote_counts): the first
\* local candidate with the entry's name and party, or the fallback
Combined(cands, results) ==
    [ i \in 1..Len(results) |->
        LET matching == { k \in 1..Len(cands) :
                            cands[k].name = results[i].name /\ cands[k].party = results[i].party }
        IN  [ candidate |-> IF matching # {} THEN cands[MinOf(matching)]
                            ELSE fallback_candidate(results[i].name, results[i].party),
              total |-> results[i].total_score,
              votes |-> results[i].votes ] ]

\* variant: entries of equal total come out in reverse ledger order
SortRank_TiesReversed(combined, i) ==
    Cardinality({ j \in 1..Len(combined) :
                    \/ combined[j].total > combined[i].total
                    \/ (combined[j].total = combined[i].total /\ j > i) })

\* combined.sort(key=lambda x: x[1], reverse=True): position of entry i after
\* the sort, counted from 0; list.sort is stable, also with reverse=True
SortRank(combined, i) ==
    Cardinality({ j \in 1..Len(combined) :
                    \/ combined[j].total > combined[i].total
                    \/ (combined[j].total = combined[i].total /\ j < i) })

Sorted(combined) ==
    [ p \in 1..Len(combined) |->
        combined[CHOOSE i \in 1..Len(combined) : SortRank(combined, i) = p - 1] ]

\* formatted_results; average_score is round(total / votes, 2), kept in hundredths
FormattedResults(sorted) ==
    [ p \in 1..Len(sorted) |->
        [ name |-> sorted[p].candidate.name,
          party |-> sorted[p].candidate.party,
          political_position |-> sorted[p].candidate.political_position,
          age |-> sorted[p].candidate.age,
          gender |-> sorted[p].candidate.gender,
          experience |-> sorted[p].candidate.experience,
          total_score |-> sorted[p].total,
          votes |-> sorted[p].votes,
          average_score |-> IF sorted[p].votes > 0
                            THEN PyRound(sorted[p].total * 100, sorted[p].votes) ELSE 0 ] ]

\* the metrics dict; voting_duration_secs (the clock) and turnout_percentage
\* (computed by the ledger) are passed through and left out here
Metrics(tracker, number_of_voters, cands, stats) ==
    [ total_gas_used |-> tracker.gas,
      total_eth_spent |-> tracker.eth,
      gas_per_voter |-> IF number_of_voters > 0 THEN tracker.gas \div number_of_voters ELSE 0,
      gas_per_candidate |-> IF Len(cands) > 0 THEN tracker.gas \div Len(cands) ELSE 0,
      total_districts |-> stats.districts,
      total_voters_registered |-> stats.registered,
      total_votes_cast |-> stats.votes ]

\* variant: the winner is the first entry of the sorted list
Winner_Recomputed(election_results, winner_info) ==
    IF Len(election_results) = 0
    THEN [ name |-> "Unknown", party |-> "Unknown", total_score |-> 0 ]
    ELSE [ name |-> election_results[1].name, party |-> election_results[1].party,
           total_score |-> election_results[1].total_score ]

\* "winner_name if 'winner_name' else ...": the literal is true, so the
\* ledger's values are taken as they are
Winner(election_results, winner_info) ==
    [ name |-> winner_info.name, party |-> winner_info.party,
      total_score |-> winner_info.score ]

\* lines 537-622: the response built from what the ledger returned
Response(cands, results, winner_info, stats, tracker, number_of_voters) ==
    LET election_results == FormattedResults(Sorted(Combined(cands, results)))
    IN  [ election_results |-> election_results,
          metrics |-> Metrics(tracker, number_of_voters, cands, stats),
          winner |-> Winner(election_results, winner_info) ]

\* what getElectionResults can return in a run: the confirmed candidates in
\* the order they were added, each with a total the ledger computed
LedgerTallies ==
    { [ i \in 1..Len(added) |->
          [ name |-> CandidateRow(added[i]).name, party |-> CandidateRow(added[i]).party,
            total_score |-> t[i], votes |-> ledger.votes ] ] :
        t \in [1..Len(added) -> 0..MaxTally] }

\* what getWinner can return in a run: one of the candidates the ledger holds
LedgerWinners(results) ==
    IF Len(results) = 0
    THEN { [ id |-> 0, name |-> "", party |-> "", score |-> 0 ] }
    ELSE { [ id |-> i - 1, name |-> results[i].name, party |-> results[i].party,
             score |-> results[i].total_score ] : i \in 1..Len(results) }

\* getElectionResults, getWinner and getElectionStats (read-only calls, any of
\* which can raise) and the assembly of the response
GetElectionResults ==
    /\ pc = "getElectionResults"
    /\ calls' = Issue("getElectionResults")
    /\ \E ok \in BOOLEAN :
         IF ok
         THEN /\ \E results \in LedgerTallies :
                   \E winner_info \in LedgerWinners(results) :
                      response' = Response([k \in 1..Len(candidates) |-> CandidateRow(candidates[k])],
                                           results, winner_info,
                                           [ districts |-> ledger.districts,
                                             registered |-> ledger.registered,
                                             votes |-> ledger.votes ],
                                           gas_tracker, config.number_of_voters)
              /\ pc' = "returned"
              /\ error' = error
         ELSE /\ Abort("LedgerError", "getElectionResults")
              /\ response' = response
    /\ UNCHANGED << invocation, config, ledger, gas_tracker, charged, candidates, added,
                    voters_per_district_list, districts, reg, registration_results,
                    coro, vote, reports >>

\* ---------------------------------------------------------------- specification
Next ==
    \/ Connect
    \/ Deploy
    \/ GenerateCandidates
    \/ CalculateVoters
    \/ AddCandidate
    \/ SetGradingScale
    \/ CreateDistrict
    \/ StartRegistration
    \/ RegisterVotersParallel
    \/ \E k \in 1..MaxDistricts :
         \/ RegisterCall(k)
         \/ RegisterGasLoad(k)
         \/ RegisterGasStore(k)
         \/ RegisterEthLoad(k)
         \/ RegisterEthStore(k)
         \/ CastVotesForDistrict(k)
         \/ CastVotesReturn(k)
    \/ GatherRegistrations
    \/ CheckRegistrationResults
    \/ StartVoting
    \/ RunParallelVoting
    \/ \E v \in 1..MaxVoters :
         \/ CastVoteCall(v)
         \/ CastVoteGasLoad(v)
         \/ CastVoteGasStore(v)
         \/ CastVoteEthLoad(v)
         \/ CastVoteEthStore(v)
    \/ GatherVotingRaises
    \/ GatherVoting
    \/ EndVoting
    \/ CollectResults
    \/ GetElectionResults

Spec == Init /\ [][Next]_vars

\* ---------------------------------------------------------------- properties
LedgerRank ==
    CASE ledger.state = "none" -> 0
      [] ledger.state = "deployed" -> 1
      [] ledger.state = "registration" -> 2
      [] ledger.state = "voting" -> 3
      [] ledger.state = "ended" -> 4
      [] ledger.state = "collected" -> 5

Submitted(w) == w.pc # "idle"

\* sum of votersRegistered over the outcomes that report success
SuccessfulSum ==
    SumSeq([k \in DOMAIN registration_results |->
              IF registration_results[k].success
              THEN registration_results[k].votersRegistered ELSE 0])

FailedDistricts == { k \in DOMAIN registration_results : ~registration_results[k].success }

FailedVotes == { v \in DOMAIN vote : Finished(vote[v]) /\ ~vote[v].result.success }

\* C1: the ledger lifecycle is phase-ordered: startRegistration only after every
\* addCandidate and createDistrict is confirmed, batchRegisterVoters only after
\* startRegistration is confirmed, startVoting only after every registration task
\* returned, castVote only after startVoting is confirmed, endVoting only after every
\* submitted castVote task returned, collectResults only after endVoting is
\* confirmed, getElectionResults only after collectResults is confirmed.
PhaseOrdered ==
    /\ calls["startRegistration"] > 0 =>
         /\ added = candidates
         /\ ledger.candidates = Len(candidates)
         /\ Len(districts) = config.number_of_districts
         /\ ledger.districts = config.number_of_districts
    /\ (calls["batchRegisterVoters"] > 0 \/ reg # << >>) => LedgerRank >= 2
    /\ calls["startVoting"] > 0 =>
         /\ Len(reg) = config.number_of_districts
         /\ \A k \in DOMAIN reg : Finished(reg[k])
    /\ (calls["castVote"] > 0 \/ \E v \in DOMAIN vote : Submitted(vote[v])) => LedgerRank >= 3
    /\ calls["endVoting"] > 0 =>
         \A v \in DOMAIN vote : Submitted(vote[v]) /\ Finished(vote[v])
    /\ calls["collectResults"] > 0 => LedgerRank >= 4
    /\ calls["getElectionResults"] > 0 => LedgerRank = 5

\* a complete run over two districts in which votes were cast
PhaseOrderedWitness ==
    /\ pc = "returned"
    /\ config.number_of_districts >= 2
    /\ calls["castVote"] = config.number_of_voters

\* C2: the gas tracker never loses an increment: once all workers have finished,
\* gas_tracker['gas'] equals the sum of the amounts the workers added.
NoLostIncrement ==
    pc \in { "check_registration_results", "endVoting" } => gas_tracker.gas = charged.gas

\* C3: gas_tracker['gas'] and gas_tracker['eth'] never decrease.
TrackerMonotonic ==
    [][ /\ gas_tracker'.gas >= gas_tracker.gas
        /\ gas_tracker'.eth >= gas_tracker.eth ]_vars

\* C4: check_registration_results runs only when every registration task has
\* returned; it compares the ledger's registered-voter count with the sum of
\* votersRegistered over the successful outcomes; on a mismatch the run aborts with
\* an error naming both counts and neither startVoting nor any castVote is issued.
ConsistencyChecked ==
    /\ pc = "check_registration_results" =>
         /\ Len(registration_results) = config.number_of_districts
         /\ \A k \in DOMAIN reg : Finished(reg[k])
    /\ calls["startVoting"] > 0 => ledger.registered = SuccessfulSum
    /\ ( /\ registration_results # << >>
         /\ pc # "check_registration_results"
         /\ ledger.registered # SuccessfulSum ) =>
         /\ error = [type |-> "AssertionError", at |-> "check_registration_results",
                     registered |-> ledger.registered, expected |-> SuccessfulSum]
         /\ calls["startVoting"] = 0
         /\ calls["castVote"] = 0
         /\ \A v \in DOMAIN vote : ~Submitted(vote[v])

\* the check failed: the ledger counted voters the outcomes do not report
ConsistencyCheckedWitness ==
    /\ error.type = "AssertionError"
    /\ error.at = "check_registration_results"
    /\ ledger.registered # SuccessfulSum

\* C5: when exactly one of three districts' batchRegisterVoters call fails, the
\* consistency check passes and the run goes on through voting to endVoting and
\* result collection: nothing but a rejected lifecycle call ends it.
ScenarioDProceeds ==
    ( /\ Len(registration_results) = 3
      /\ Len(candidates) > 0
      /\ Cardinality(FailedDistricts) = 1
      /\ \A k \in FailedDistricts : registration_results[k].error = "LedgerError"
      /\ pc = "raised" ) => error.type = "LedgerError"

\* C6: register_voters_parallel attempts batchRegisterVoters for every non-empty
\* district whatever the other districts' outcomes are, and returns one outcome per
\* district, in district order.
RegistrationsIndependent ==
    registration_results # << >> =>
      /\ Len(registration_results) = Len(districts)
      /\ Len(registration_results) = config.number_of_districts
      /\ \A k \in DOMAIN registration_results :
           /\ registration_results[k].districtId = k - 1
           /\ registration_results[k].districtId = districts[k].id
           /\ Len(districts[k].voters) > 0 => reg[k].attempts = 1
           /\ ("error" \in DOMAIN registration_results[k]) = ~registration_results[k].success

\* one district failed and a later and an earlier one still succeeded
RegistrationsIndependentWitness ==
    /\ Len(registration_results) = 3
    /\ ~registration_results[2].success
    /\ registration_results[1].success
    /\ registration_results[3].success

\* C7: a failed castVote never aborts the district or the run: in a run with failed
\* votes every voter's castVote is still submitted, each failure is an outcome with
\* success = false and an error, and nothing but a rejected lifecycle call keeps
\* the run from endVoting, collectResults and the response.
VoteFailureTolerated ==
    (FailedVotes # {} /\ Len(candidates) > 0) =>
      /\ \A v \in FailedVotes : "error" \in DOMAIN vote[v].result
      /\ pc = "raised" => error.type = "LedgerError"

\* C8: no remote call is retried: batchRegisterVoters is submitted at most once per
\* district and castVote at most once per voter.
NoRetry ==
    /\ \A k \in DOMAIN reg : reg[k].attempts <= 1
    /\ \A v \in DOMAIN vote : vote[v].attempts <= 1
    /\ calls["batchRegisterVoters"] = SumSeq([k \in DOMAIN reg |-> reg[k].attempts])
    /\ calls["castVote"] = SumSeq([v \in DOMAIN vote |-> vote[v].attempts])

\* a complete run in which a vote was rejected and attempted once
NoRetryWitness ==
    /\ pc = "returned"
    /\ \E v \in FailedVotes : vote[v].attempts = 1
    /\ calls["castVote"] = config.number_of_voters

\* C9: a configuration error makes run_election fail before any ledger call: a run
\* that ends in the error of generate_candidates or calculate_voters_per_district
\* has submitted no deployment and no other transaction.
ConfigurationErrorBeforeLedger ==
    ( /\ pc = "raised"
      /\ \/ ( /\ error.at = "generate_candidates"
              /\ config.number_of_candidates > SourceSize )
         \/ error.at = "calculate_voters_per_district" ) =>
      \A kind \in CallKinds : calls[kind] = 0

MutatingKinds == CallKinds \ { "getElectionResults" }

OncePerRun == { "deploy", "setGradingScale", "startRegistration", "startVoting",
                "endVoting", "collectResults" }

NoReentryState ==
    /\ \A kind \in OncePerRun : calls[kind] <= 1
    /\ Len(districts) <= calls["createDistrict"]
    /\ calls["createDistrict"] <= Len(districts) + 1
    /\ \A k \in DOMAIN districts : districts[k].id = k - 1
    /\ Len(added) <= calls["addCandidate"]
    /\ calls["addCandidate"] <= Len(added) + 1
    /\ Len(added) <= Len(candidates)
    /\ added = Prefix(candidates, Len(added))
    /\ calls["startRegistration"] > 0 =>
         /\ calls["createDistrict"] = config.number_of_districts
         /\ calls["addCandidate"] = Len(candidates)
         /\ added = candidates

NoCallAfterResults ==
    calls["getElectionResults"] > 0 => \A kind \in MutatingKinds : calls'[kind] = calls[kind]

\* C10: no phase is re-entrant: deploy, setGradingScale, startRegistration,
\* startVoting, endVoting and collectResults are issued at most once, createDistrict
\* once per district, addCandidate once per sampled candidate in sample order, and
\* no mutating call follows the fetch of the results.
NoReentry == [](NoReentryState) /\ [][NoCallAfterResults]_vars

\* a complete run with two candidates and two districts
NoReentryWitness ==
    /\ pc = "returned"
    /\ Len(added) = 2
    /\ added[1] > added[2]
    /\ Len(districts) >= 2

\* ---------------------------------------------------------------- scoring library
\* what a call of a library function ends in: a value, or an exception
Returned(v) == [raised |-> "none", value |-> v]
Raised(type) == [raised |-> type, value |-> << >>]
Pending == [raised |-> "pending", value |-> << >>]

\* max(score_range_min, min(score_range_max, x))
Clamp(score_range_min, score_range_max, x) ==
    MaxOf({score_range_min, MinOf({score_range_max, x})})

\* variant: the smaller half wins
score_polarized_SmallerHalf(score_range_min, score_range_max, candidate_count, cands) ==
    { Returned([i \in 1..candidate_count |->
                  IF i \in winners THEN score_range_max ELSE score_range_min]) :
        winners \in { S \in SUBSET (1..candidate_count) :
                        Cardinality(S) = candidate_count \div 2 } }

\* random.sample(range(n), k=(n + 1) // 2) as a set of indices
score_polarized(score_range_min, score_range_max, candidate_count, cands) ==
    { Returned([i \in 1..candidate_count |->
                  IF i \in winners THEN score_range_max ELSE score_range_min]) :
        winners \in { S \in SUBSET (1..candidate_count) :
                        Cardinality(S) = (candidate_count + 1) \div 2 } }

\* random.randint(min, max) for each candidate
score_random(score_range_min, score_range_max, candidate_count, cands) ==
    { Returned(v) : v \in [1..candidate_count -> score_range_min..score_range_max] }

\* random.randrange(0) raises ValueError
score_strategic_undervoting(score_range_min, score_range_max, candidate_count, cands) ==
    IF candidate_count = 0 THEN { Raised("ValueError") }
    ELSE LET computed == MinOf({score_range_min + 1, score_range_max - 2})
             low_score == IF computed < score_range_min THEN score_range_min ELSE computed
         IN  { Returned([i \in 1..candidate_count |->
                           IF i = fav THEN score_range_max ELSE low_score]) :
                 fav \in 1..candidate_count }

score_bullet(score_range_min, score_range_max, candidate_count, cands) ==
    IF candidate_count = 0 THEN { Raised("ValueError") }
    ELSE { Returned([i \in 1..candidate_count |->
                       IF i = fav THEN score_range_max ELSE score_range_min]) :
             fav \in 1..candidate_count }

score_biased_towards_left_wing_candidates(score_range_min, score_range_max, candidate_count, cands) ==
    { Returned([i \in 1..Len(cands) |->
                  IF cands[i].political_position \in {"Left", "Far Left"}
                  THEN score_range_max ELSE score_range_min]) }

score_biased_towards_right_wing_candidates(score_range_min, score_range_max, candidate_count, cands) ==
    { Returned([i \in 1..Len(cands) |->
                  IF cands[i].political_position \in {"Right", "Far Right"}
                  THEN score_range_max ELSE score_range_min]) }

\* max() of an empty sequence raises ValueError; exp / max_exp raises
\* ZeroDivisionError when no candidate has any experience
score_biased_towards_experienced_candidates(score_range_min, score_range_max, candidate_count, cands) ==
    IF Len(cands) = 0 THEN { Raised("ValueError") }
    ELSE LET max_exp == MaxOf({ cands[i].experience : i \in 1..Len(cands) })
         IN  IF max_exp = 0 THEN { Raised("ZeroDivisionError") }
             ELSE { Returned([i \in 1..Len(cands) |->
                      Clamp(score_range_min, score_range_max,
                            PyRound(score_range_min * max_exp
                                      + cands[i].experience * (score_range_max - score_range_min),
                                    max_exp))]) }

score_biased_towards_young_candidates(score_range_min, score_range_max, candidate_count, cands) ==
    IF Len(cands) = 0 THEN { Raised("ValueError") }
    ELSE LET max_age == MaxOf({ cands[i].age : i \in 1..Len(cands) })
             min_age == MinOf({ cands[i].age : i \in 1..Len(cands) })
         IN  { Returned([i \in 1..Len(cands) |->
                 Clamp(score_range_min, score_range_max,
                       IF max_age = min_age THEN score_range_max
                       ELSE PyRound(score_range_min * (max_age - min_age)
                                      + (max_age - cands[i].age) * (score_range_max - score_range_min),
                                    max_age - min_age))]) }

\* the keys of the voting_strategies registry
Registered == { StrategyNames[i] : i \in 1..NumStrategies }

\* the function registered under a name, applied
strategy_fn(strategy, score_range_min, score_range_max, cands) ==
    CASE strategy = "polarized" ->
           score_polarized(score_range_min, score_range_max, Len(cands), cands)
      [] strategy = "random" ->
           score_random(score_range_min, score_range_max, Len(cands), cands)
      [] strategy = "strategic_undervoting" ->
           score_strategic_undervoting(score_range_min, score_range_max, Len(cands), cands)
      [] strategy = "bullet" ->
           score_bullet(score_range_min, score_range_max, Len(cands), cands)
      [] strategy = "biased_towards_left_wing_candidates" ->
           score_biased_towards_left_wing_candidates(score_range_min, score_range_max, Len(cands), cands)
      [] strategy = "biased_towards_right_wing_candidates" ->
           score_biased_towards_right_wing_candidates(score_range_min, score_range_max, Len(cands), cands)
      [] strategy = "biased_towards_experienced_candidates" ->
           score_biased_towards_experienced_candidates(score_range_min, score_range_max, Len(cands), cands)
      [] strategy = "biased_towards_young_candidates" ->
           score_biased_towards_young_candidates(score_range_min, score_range_max, Len(cands), cands)

\* variant: a name that is not registered is an error
generate_scores_NoFallback(strategy, score_range_min, score_range_max, cands) ==
    IF strategy \notin Registered
    THEN { Raised("KeyError") }
    ELSE strategy_fn(strategy, score_range_min, score_range_max, cands)

\* voting_strategies.get(strategy), random when the name is not registered
generate_scores(strategy, score_range_min, score_range_max, cands) ==
    IF strategy \notin Registered
    THEN score_random(score_range_min, score_range_max, Len(cands), cands)
    ELSE strategy_fn(strategy, score_range_min, score_range_max, cands)

\* ---------------------------------------------------------------- scoring library, src/simulation.py
\* The draft keeps its own copy of the library.  Its polarized, random,
\* left-wing and right-wing functions are the same text as above.
draft_score_strategic_undervoting(score_range_min, score_range_max, candidate_count, cands) ==
    IF candidate_count = 0 THEN { Raised("ValueError") }
    ELSE LET low == MaxOf({score_range_min, score_range_max - 3})
         IN  { Returned([i \in 1..candidate_count |->
                           IF i = fav THEN score_range_max ELSE low]) :
                 fav \in 1..candidate_count }

\* [10 if i == fav else 0 for i in range(candidate_count)]
draft_score_bullet(score_range_min, score_range_max, candidate_count, cands) ==
    IF candidate_count = 0 THEN { Raised("ValueError") }
    ELSE { Returned([i \in 1..candidate_count |-> IF i = fav THEN 10 ELSE 0]) :
             fav \in 1..candidate_count }

\* round(score), not clamped
draft_score_biased_towards_experienced_candidates(score_range_min, score_range_max, candidate_count, cands) ==
    IF Len(cands) = 0 THEN { Raised("ValueError") }
    ELSE LET max_exp == MaxOf({ cands[i].experience : i \in 1..Len(cands) })
         IN  IF max_exp = 0 THEN { Raised("ZeroDivisionError") }
             ELSE { Returned([i \in 1..Len(cands) |->
                      PyRound(score_range_min * max_exp
                                + cands[i].experience * (score_range_max - score_range_min),
                              max_exp)]) }

\* (max_age - age) / max_age, round(score) not clamped
draft_score_biased_towards_young_candidates(score_range_min, score_range_max, candidate_count, cands) ==
    IF Len(cands) = 0 THEN { Raised("ValueError") }
    ELSE LET max_age == MaxOf({ cands[i].age : i \in 1..Len(cands) })
         IN  IF max_age = 0 THEN { Raised("ZeroDivisionError") }
             ELSE { Returned([i \in 1..Len(cands) |->
                      PyRound(score_range_min * max_age
                                + (max_age - cands[i].age) * (score_range_max - score_range_min),
                              max_age)]) }

draft_generate_scores(strategy, score_range_min, score_range_max, cands) ==
    IF strategy \notin Registered
    THEN score_random(score_range_min, score_range_max, Len(cands), cands)
    ELSE CASE strategy = "polarized" ->
                score_polarized(score_range_min, score_range_max, Len(cands), cands)
           [] strategy = "random" ->
                score_random(score_range_min, score_range_max, Len(cands), cands)
           [] strategy = "strategic_undervoting" ->
                draft_score_strategic_undervoting(score_range_min, score_range_max, Len(cands), cands)
           [] strategy = "bullet" ->
                draft_score_bullet(score_range_min, score_range_max, Len(cands), cands)
           [] strategy = "biased_towards_left_wing_candidates" ->
                score_biased_towards_left_wing_candidates(score_range_min, score_range_max, Len(cands), cands)
           [] strategy = "biased_towards_right_wing_candidates" ->
                score_biased_towards_right_wing_candidates(score_range_min, score_range_max, Len(cands), cands)
           [] strategy = "biased_towards_experienced_candidates" ->
                draft_score_biased_towards_experienced_candidates(score_range_min, score_range_max, Len(cands), cands)
           [] strategy = "biased_towards_young_candidates" ->
                draft_score_biased_towards_young_candidates(score_range_min, score_range_max, Len(cands), cands)

\* ---------------------------------------------------------------- library calls
\* The library functions called on their own, on every input within the
\* bounds; run_election is not started.
CalculateInputs ==
    { << V, D >> : V \in -2..MaxNumberOfVoters, D \in -2..MaxNumberOfDistricts }

\* a district of n voters and one weight per field of VotingStrategies
DistributeInputs ==
    { << n, w >> : n \in 0..MaxDistrictSize,
                   w \in [1..NumStrategies -> 0..MaxWeight] }

ScoreRanges == { r \in (-1..MaxScore) \X (-1..MaxScore) : r[1] < r[2] }

Positions == { "Far Left", "Left", "Center", "Right", "Far Right" }

\* a candidates.csv row as the library reads it
Row(position, age, experience) ==
    [political_position |-> position, age |-> age, experience |-> experience]

\* candidate lists: each strategy sees every value of the column it reads
CandidateLists(strategy) ==
    UNION { IF strategy \in { "biased_towards_left_wing_candidates",
                               "biased_towards_right_wing_candidates" }
            THEN { [i \in 1..n |-> Row(c[i], 0, 0)] : c \in [1..n -> Positions] }
            ELSE IF strategy = "biased_towards_experienced_candidates"
            THEN { [i \in 1..n |-> Row("Center", 0, c[i])] : c \in [1..n -> 0..MaxExperience] }
            ELSE IF strategy = "biased_towards_young_candidates"
            THEN { [i \in 1..n |-> Row("Center", c[i], 0)] : c \in [1..n -> -1..MaxAge] }
            ELSE { [i \in 1..n |-> Row("Center", 0, 0)] }
          : n \in 0..MaxCandidates }

\* what the ledger can report for one candidate: any of four identities
LedgerEntries ==
    [ name : { "Ada", "Bo" }, party : { "Red", "Blue" },
      total_score : 0..MaxTally, votes : { 0, 3 } ]

\* inputs of the response assembly: the sampled candidates, the tally of up
\* to three entries and the winner as the ledger reports them
ResponseInputs ==
    [ candidates : { << >>, << CandidateRow(1) >>, << CandidateRow(1), CandidateRow(2) >>,
                     << CandidateRow(3), CandidateRow(1) >> },
      results : UNION { [1..n -> LedgerEntries] : n \in 0..3 },
      winner_info : { [ id |-> 0, name |-> "Ada", party |-> "Red", score |-> 0 ],
                      [ id |-> 1, name |-> "Bo", party |-> "Blue", score |-> MaxTally ] } ]

\* the registered names and one name that is not registered
CalledStrategies == Registered \cup { "approval" }

LibraryInit ==
    /\ \/ \E a \in CalculateInputs :
            invocation = [fn |-> "calculate_voters_per_district", args |-> a,
                          outcome |-> Pending]
       \/ \E a \in DistributeInputs :
            invocation = [fn |-> "distribute_strategies_to_voters", args |-> a,
                          outcome |-> Pending]
       \/ \E file \in { "src/app/simulation.py", "src/simulation.py" },
             strategy \in CalledStrategies, r \in ScoreRanges :
            \E cands \in CandidateLists(strategy) :
               invocation = [fn |-> "generate_scores", file |-> file,
                             args |-> << strategy, r[1], r[2], cands >>,
                             outcome |-> Pending]
       \/ \E a \in ResponseInputs :
            invocation = [fn |-> "run_election", args |-> a, outcome |-> Pending]
    /\ config = [number_of_voters |-> 0, number_of_districts |-> 0,
                 number_of_candidates |-> 0,
                 voting_strategies |-> << 0, 1, 0, 0, 0, 0, 0, 0 >>]
    /\ pc = "connect"
    /\ error = NoError
    /\ ledger = [state |-> "none", candidates |-> 0, districts |-> 0,
                 registered |-> 0, batches |-> {}, votes |-> 0]
    /\ calls = [k \in CallKinds |-> 0]
    /\ gas_tracker = [gas |-> 0, eth |-> 0]
    /\ charged = [gas |-> 0, eth |-> 0]
    /\ candidates = << >>
    /\ added = << >>
    /\ voters_per_district_list = << >>
    /\ districts = << >>
    /\ reg = << >>
    /\ registration_results = << >>
    /\ coro = << >>
    /\ vote = << >>
    /\ reports = << >>
    /\ response = None

run_vars == << config, pc, error, ledger, calls, gas_tracker, charged, candidates, added,
               voters_per_district_list, districts, reg, registration_results,
               coro, vote, reports, response >>

CallCalculateVoters ==
    /\ invocation.fn = "calculate_voters_per_district"
    /\ invocation.outcome = Pending
    /\ LET V == invocation.args[1]
           D == invocation.args[2]
       IN  invocation' = [invocation EXCEPT !.outcome =
                            IF VotersPerDistrictError(V, D) # "ok"
                            THEN Raised("ValueError")
                            ELSE Returned(calculate_voters_per_district(V, D))]
    /\ UNCHANGED run_vars

CallDistribute ==
    /\ invocation.fn = "distribute_strategies_to_voters"
    /\ invocation.outcome = Pending
    /\ LET n == invocation.args[1]
           w == invocation.args[2]
       IN  invocation' = [invocation EXCEPT !.outcome =
                            IF DistributeRaises(w)
                            THEN Raised("ZeroDivisionError")
                            ELSE Returned(distribute_strategies_to_voters([k \in 1..n |-> k - 1], w))]
    /\ UNCHANGED run_vars

CallGenerateScores ==
    /\ invocation.fn = "generate_scores"
    /\ invocation.file = "src/app/simulation.py"
    /\ invocation.outcome = Pending
    /\ \E o \in generate_scores(invocation.args[1], invocation.args[2],
                                invocation.args[3], invocation.args[4]) :
         invocation' = [invocation EXCEPT !.outcome = o]
    /\ UNCHANGED run_vars

CallDraftGenerateScores ==
    /\ invocation.fn = "generate_scores"
    /\ invocation.file = "src/simulation.py"
    /\ invocation.outcome = Pending
    /\ \E o \in draft_generate_scores(invocation.args[1], invocation.args[2],
                                      invocation.args[3], invocation.args[4]) :
         invocation' = [invocation EXCEPT !.outcome = o]
    /\ UNCHANGED run_vars

\* the tail of run_election on what the ledger returned
AssembleResponse ==
    /\ invocation.fn = "run_election"
    /\ invocation.outcome = Pending
    /\ invocation' = [invocation EXCEPT !.outcome =
                        Returned(Response(invocation.args.candidates, invocation.args.results,
                                          invocation.args.winner_info,
                                          [districts |-> 1, registered |-> 2, votes |-> 2],
                                          [gas |-> 7, eth |-> 7 * GasPrice], 2))]
    /\ UNCHANGED run_vars

LibraryNext ==
    \/ CallCalculateVoters
    \/ CallDistribute
    \/ CallGenerateScores
    \/ CallDraftGenerateScores
    \/ AssembleResponse

LibrarySpec == LibraryInit /\ [][LibraryNext]_vars

\* ---------------------------------------------------------------- library properties

Called(fn) == invocation.fn = fn /\ invocation.outcome # Pending

\* C11: for 1 <= D <= V, calculate_voters_per_district(V, D) returns a list of
\* length D that sums to V, whose every element is floor(V / D) or one more,
\* with exactly V mod D larger elements, all in the first V mod D positions.
VotersSpreadEvenly ==
    LET V == invocation.args[1]
        D == invocation.args[2]
        list == invocation.outcome.value
    IN  (Called("calculate_voters_per_district") /\ 1 <= D /\ D <= V) =>
          /\ invocation.outcome.raised = "none"
          /\ Len(list) = D
          /\ SumSeq(list) = V
          /\ \A i \in 1..D : list[i] \in { V \div D, V \div D + 1 }
          /\ Cardinality({ i \in 1..D : list[i] = V \div D + 1 }) = V % D
          /\ \A i \in 1..D : list[i] = V \div D + 1 <=> i <= V % D

\* five voters over three districts came back as 2, 2, 1
VotersSpreadEvenlyWitness ==
    /\ Called("calculate_voters_per_district")
    /\ invocation.args = << 5, 3 >>
    /\ invocation.outcome = Returned(<< 2, 2, 1 >>)

\* C12: calculate_voters_per_district raises, and returns no list, for every
\* input that violates D <= V, D > 0 or V >= 0 (V = 0 with D = 0 and every
\* negative V among them), and returns a list for every input that satisfies
\* all three.
RejectsExactlyInvalid ==
    LET V == invocation.args[1]
        D == invocation.args[2]
    IN  Called("calculate_voters_per_district") =>
          IF D <= V /\ D > 0 /\ V >= 0
          THEN invocation.outcome.raised = "none" /\ Len(invocation.outcome.value) = D
          ELSE invocation.outcome = Raised("ValueError")

\* zero voters over zero districts were rejected
RejectsExactlyInvalidWitness ==
    /\ Called("calculate_voters_per_district")
    /\ invocation.args = << 0, 0 >>
    /\ invocation.outcome = Raised("ValueError")

\* number of voters of the returned pool that carry strategy i
PoolCount(pool, i) == Cardinality({ k \in 1..Len(pool) : pool[k] = StrategyNames[i] })

StrategyIndex(name) == CHOOSE i \in 1..NumStrategies : StrategyNames[i] = name

\* C13: for every n >= 0 and every weight map with non-negative weights and a
\* positive total, distribute_strategies_to_voters returns a pool of exactly
\* n entries in which every strategy's count differs from
\* (its weight / total weight) * n by less than 1.
PoolMatchesWeights ==
    LET n == invocation.args[1]
        w == invocation.args[2]
        total_w == SumSeq(w)
        pool == invocation.outcome.value
    IN  (Called("distribute_strategies_to_voters") /\ total_w > 0) =>
          /\ invocation.outcome.raised = "none"
          /\ Len(pool) = n
          /\ \A i \in 1..NumStrategies :
               /\ PoolCount(pool, i) * total_w - w[i] * n < total_w
               /\ w[i] * n - PoolCount(pool, i) * total_w < total_w

\* three voters under weights 2 : 1 : 2 (shares 1.2, 0.6, 1.2) came back as a
\* pool of three
PoolMatchesWeightsWitness ==
    /\ Called("distribute_strategies_to_voters")
    /\ invocation.args[1] = 3
    /\ invocation.args[2] = << 2, 1, 2, 0, 0, 0, 0, 0 >>
    /\ Len(invocation.outcome.value) = 3

\* C14: when two strategies have equal fractional remainders and the leftover
\* seats do not reach both, the seat goes to the one listed first.
FirstListedWinsTies ==
    LET n == invocation.args[1]
        w == invocation.args[2]
        total_w == SumSeq(w)
        pool == invocation.outcome.value
    IN  (Called("distribute_strategies_to_voters") /\ total_w > 0) =>
          \A i, j \in 1..NumStrategies :
             ( /\ i < j
               /\ (w[i] * n) % total_w = (w[j] * n) % total_w
               /\ PoolCount(pool, j) = (w[j] * n) \div total_w + 1 )
             => PoolCount(pool, i) = (w[i] * n) \div total_w + 1

\* C15: the returned pool is grouped by strategy, the groups in the order of
\* the weight map: no voter's strategy is listed before the strategy of a
\* voter at an earlier position.
PoolGroupedInOrder ==
    LET pool == invocation.outcome.value
    IN  (Called("distribute_strategies_to_voters") /\ invocation.outcome.raised = "none") =>
          \A p, q \in 1..Len(pool) :
             p < q => StrategyIndex(pool[p]) <= StrategyIndex(pool[q])

\* three voters under weights 1 : 0 : 1 : 1 came back as one voter each of the
\* first, third and fourth strategy, in that order
PoolGroupedInOrderWitness ==
    /\ Called("distribute_strategies_to_voters")
    /\ invocation.args[2] = << 1, 0, 1, 1, 0, 0, 0, 0 >>
    /\ invocation.outcome = Returned(<< "polarized", "strategic_undervoting", "bullet" >>)

\* the arguments and the result of a generate_scores call
Strategy == invocation.args[1]
ScoreMin == invocation.args[2]
ScoreMax == invocation.args[3]
CandidateCount == Len(invocation.args[4])
Scores == invocation.outcome.value

\* C16: for every registered strategy, every score range with
\* scoreMin < scoreMax and every non-empty candidate list, generate_scores of
\* src/app/simulation.py returns a vector of length len(candidates) whose
\* every element lies in [scoreMin, scoreMax]; bullet and polarized return no
\* value strictly between scoreMin and scoreMax.
ScoresWithinRange ==
    ( /\ Called("generate_scores")
      /\ invocation.file = "src/app/simulation.py"
      /\ Strategy \in Registered
      /\ CandidateCount > 0 ) =>
        /\ invocation.outcome.raised = "none"
        /\ Len(Scores) = CandidateCount
        /\ \A i \in 1..Len(Scores) : ScoreMin <= Scores[i] /\ Scores[i] <= ScoreMax
        /\ Strategy \in { "bullet", "polarized" } =>
             \A i \in 1..Len(Scores) : Scores[i] \in { ScoreMin, ScoreMax }

\* C17: strategic_undervoting gives exactly one candidate scoreMax and every
\* other candidate max(scoreMin, scoreMax - 3), for every score range with
\* scoreMin < scoreMax and every non-empty candidate list.
UndervotingLowScore ==
    ( /\ Called("generate_scores")
      /\ Strategy = "strategic_undervoting"
      /\ CandidateCount > 0 ) =>
        /\ invocation.outcome.raised = "none"
        /\ Len(Scores) = CandidateCount
        /\ \E fav \in 1..Len(Scores) :
             \A i \in 1..Len(Scores) :
                Scores[i] = IF i = fav THEN ScoreMax
                            ELSE IF ScoreMin >= ScoreMax - 3 THEN ScoreMin
                            ELSE ScoreMax - 3

\* C18: for every score range with scoreMin < scoreMax and every non-empty
\* candidate list, bullet returns a vector with exactly one entry equal to
\* scoreMax and all other entries equal to scoreMin.
BulletShape ==
    ( /\ Called("generate_scores")
      /\ Strategy = "bullet"
      /\ CandidateCount > 0 ) =>
        /\ invocation.outcome.raised = "none"
        /\ Len(Scores) = CandidateCount
        /\ \E fav \in 1..Len(Scores) :
             \A i \in 1..Len(Scores) :
                Scores[i] = IF i = fav THEN ScoreMax ELSE ScoreMin

\* C19: for n >= 1 candidates, polarized returns a vector with exactly
\* ceil(n / 2) entries equal to scoreMax and all the others equal to scoreMin.
PolarizedLargerHalf ==
    ( /\ Called("generate_scores")
      /\ Strategy = "polarized"
      /\ CandidateCount >= 1 ) =>
        LET top == Cardinality({ i \in 1..Len(Scores) : Scores[i] = ScoreMax })
        IN  /\ invocation.outcome.raised = "none"
            /\ Len(Scores) = CandidateCount
            /\ 2 * top >= CandidateCount
            /\ 2 * top <= CandidateCount + 1
            /\ \A i \in 1..Len(Scores) : Scores[i] \in { ScoreMin, ScoreMax }

\* three candidates were scored polarized: two at scoreMax, one at scoreMin
PolarizedLargerHalfWitness ==
    /\ Called("generate_scores")
    /\ Strategy = "polarized"
    /\ CandidateCount = 3
    /\ Cardinality({ i \in 1..Len(Scores) : Scores[i] = ScoreMax }) = 2
    /\ Cardinality({ i \in 1..Len(Scores) : Scores[i] = ScoreMin }) = 1

\* C20: generate_scores never raises on a strategy name that is not
\* registered; it returns a vector that random could return: one score per
\* candidate, each in [scoreMin, scoreMax].
UnknownStrategyScoredAtRandom ==
    ( /\ Called("generate_scores")
      /\ Strategy \notin Registered ) =>
        /\ invocation.outcome.raised = "none"
        /\ Len(Scores) = CandidateCount
        /\ \A i \in 1..Len(Scores) : Scores[i] \in ScoreMin..ScoreMax

\* a name that is not registered was scored for two candidates with a value
\* strictly inside the range, which only random returns
UnknownStrategyScoredAtRandomWitness ==
    /\ Called("generate_scores")
    /\ invocation.file = "src/app/simulation.py"
    /\ Strategy = "approval"
    /\ CandidateCount = 2
    /\ invocation.outcome.raised = "none"
    /\ ScoreMin < Scores[1] /\ Scores[1] < ScoreMax
    /\ Scores[2] = ScoreMin

\* ---------------------------------------------------------------- response properties
Orderings(n) == { f \in [1..n -> 1..n] : \A i, j \in 1..n : i # j => f[i] # f[j] }

\* entry e of election_results carries ledger entry r
Carries(e, r) ==
    /\ e.name = r.name
    /\ e.party = r.party
    /\ e.total_score = r.total_score
    /\ e.votes = r.votes

\* C21: election_results is ordered by total score descending and the order
\* is stable: entries of equal total score appear in the relative order in
\* which getElectionResults reported them.
ResultsSortedStable ==
    Called("run_election") =>
      LET results == invocation.args.results
          listed == invocation.outcome.value.election_results
      IN  /\ Len(listed) = Len(results)
          /\ \A p, q \in 1..Len(listed) :
                p < q => listed[p].total_score >= listed[q].total_score
          /\ \E f \in Orderings(Len(results)) :
                /\ \A p \in 1..Len(listed) : Carries(listed[p], results[f[p]])
                /\ \A p, q \in 1..Len(listed) :
                      (p < q /\ listed[p].total_score = listed[q].total_score) => f[p] < f[q]

\* the ledger reported Bo (0), Ada Red (1), Ada Blue (0); the response lists
\* Ada Red, then Bo, then Ada Blue
ResultsSortedStableWitness ==
    /\ Called("run_election")
    /\ invocation.args.candidates = << CandidateRow(1), CandidateRow(2) >>
    /\ invocation.args.results =
         << [name |-> "Bo", party |-> "Red", total_score |-> 0, votes |-> 3],
            [name |-> "Ada", party |-> "Red", total_score |-> 1, votes |-> 3],
            [name |-> "Ada", party |-> "Blue", total_score |-> 0, votes |-> 3] >>
    /\ LET listed == invocation.outcome.value.election_results
       IN  /\ listed[1].name = "Ada" /\ listed[1].party = "Red"
           /\ listed[2].name = "Bo"
           /\ listed[3].name = "Ada" /\ listed[3].party = "Blue"

\* the demographic fields entry e must carry for ledger entry r
JoinedWith(e, r, cands) ==
    LET matching == { k \in 1..Len(cands) :
                        cands[k].name = r.name /\ cands[k].party = r.party }
    IN  IF matching = {}
        THEN /\ e.political_position = "Unknown"
             /\ e.age = "Unknown"
             /\ e.gender = "Unknown"
             /\ e.experience = "Unknown"
        ELSE \E k \in matching :
               /\ e.political_position = cands[k].political_position
               /\ e.age = cands[k].age
               /\ e.gender = cands[k].gender
               /\ e.experience = cands[k].experience

\* C22: every ledger tally entry is joined to the local candidate whose name
\* and party both match; an entry without one yields a placeholder with
\* unknown demographic fields; the output has exactly one entry per ledger
\* entry, with that entry's total score and vote count unchanged.
JoinKeepsLedgerEntries ==
    Called("run_election") =>
      LET results == invocation.args.results
          listed == invocation.outcome.value.election_results
      IN  /\ invocation.outcome.raised = "none"
          /\ Len(listed) = Len(results)
          /\ \E f \in Orderings(Len(results)) :
                \A p \in 1..Len(listed) :
                   /\ Carries(listed[p], results[f[p]])
                   /\ JoinedWith(listed[p], results[f[p]], invocation.args.candidates)

\* Ada Blue has no local record (only Ada Red has) and is listed with unknown
\* fields; Ada Red is listed with the fields of her row
JoinKeepsLedgerEntriesWitness ==
    /\ Called("run_election")
    /\ invocation.args.candidates = << CandidateRow(1) >>
    /\ invocation.args.results =
         << [name |-> "Ada", party |-> "Blue", total_score |-> 1, votes |-> 3],
            [name |-> "Ada", party |-> "Red", total_score |-> 0, votes |-> 3] >>
    /\ LET listed == invocation.outcome.value.election_results
       IN  /\ listed[1].party = "Blue" /\ listed[1].age = "Unknown"
           /\ listed[2].party = "Red" /\ listed[2].age = CandidateRow(1).age

\* C23: the winner of the response is the name, party and score that
\* getWinner returned, unchanged, also when the first entry of
\* election_results is another candidate.
WinnerFromLedger ==
    Called("run_election") =>
      /\ invocation.outcome.value.winner.name = invocation.args.winner_info.name
      /\ invocation.outcome.value.winner.party = invocation.args.winner_info.party
      /\ invocation.outcome.value.winner.total_score = invocation.args.winner_info.score

\* getWinner named Ada Red with score 0 while the sorted list starts with Bo
WinnerFromLedgerWitness ==
    /\ Called("run_election")
    /\ invocation.args.winner_info.name = "Ada"
    /\ Len(invocation.outcome.value.election_results) = 2
    /\ invocation.outcome.value.election_results[1].name = "Bo"
    /\ invocation.outcome.value.election_results[1].total_score = MaxTally
    /\ invocation.outcome.value.winner.name = "Ada"
    /\ invocation.outcome.value.winner.total_score = 0

\* -------------------------------------------------------- properties of the run's data
\* the parts of the response that hold an operation's outcome: the response has the
\* keys election_results, metrics and winner, and only election_results is a list
ResponseOutcomes ==
    { response.election_results[i] : i \in { j \in DOMAIN response.election_results :
                                               "success" \in DOMAIN response.election_results[j] } }

\* C25: when vote calls failed during a run that returned, the failed operations'
\* outcome entries are included in the final response.
PartialFailuresReported ==
    pc = "returned" => \A v \in FailedVotes : vote[v].result \in ResponseOutcomes

\* C26: a run whose voter count is zero, or whose candidate count is zero, does not
\* fail of itself (only a refused connection or a rejected ledger call ends it), and
\* when it returns its metrics report gas_per_voter = 0, respectively
\* gas_per_candidate = 0. The other count of the request is a valid one: with zero
\* voters the candidate count is one the source file can supply, with zero
\* candidates the voters and districts are ones calculate_voters_per_district accepts.
ZeroCountsReported ==
    /\ ( /\ pc = "raised"
         /\ \/ /\ config.number_of_voters = 0
               /\ config.number_of_candidates \in 0..SourceSize
            \/ /\ config.number_of_candidates = 0
               /\ VotersPerDistrictError(config.number_of_voters,
                                         config.number_of_districts) = "ok" )
       => error.type \in { "LedgerError", "AssertionError" }
    /\ pc = "returned" =>
         /\ config.number_of_voters = 0 => response.metrics.gas_per_voter = 0
         /\ config.number_of_candidates = 0 => response.metrics.gas_per_candidate = 0

RECURSIVE Flatten(_)
Flatten(seqs) ==
    IF seqs = << >> THEN << >> ELSE Head(seqs) \o Flatten(Tail(seqs))

VoterLists == [k \in DOMAIN districts |-> districts[k].voters]

\* the wallets generate_voter_wallets made for the districts built so far, by index
GeneratedVoters ==
    [i \in 1..SumSeq(Prefix(voters_per_district_list, Len(districts))) |-> i - 1]

OwnedByOneDistrict ==
    /\ \A j, k \in DOMAIN districts :
         j # k => \A a \in DOMAIN districts[j].voters, b \in DOMAIN districts[k].voters :
                    districts[j].voters[a] # districts[k].voters[b]
    /\ Flatten(VoterLists) = GeneratedVoters
    /\ \A k \in DOMAIN districts : Len(districts[k].voters) = voters_per_district_list[k]
    /\ (districts # << >> /\ Len(districts) = Len(voters_per_district_list))
         => Len(GeneratedVoters) = config.number_of_voters

\* C27: every voter is owned by exactly one district for the whole run: the
\* districts' voter lists are pairwise disjoint, their concatenation in district
\* order is the generated voter list in index order, each list is as long as its
\* entry of the voters-per-district list, and no step changes the voter list of a
\* district once it is built.
VotersOwnedByOneDistrict ==
    [][ /\ OwnedByOneDistrict'
        /\ \A k \in DOMAIN districts :
             k \in DOMAIN districts' /\ districts'[k].voters = districts[k].voters ]_vars

VotersOwnedByOneDistrictWitness ==
    /\ pc = "returned"
    /\ Len(districts) >= 2
    /\ \A k \in DOMAIN districts : Len(districts[k].voters) >= 1
    /\ \E k \in DOMAIN districts : Len(districts[k].voters) >= 2

\* C28: a district's strategy assignment is written at most once, by the last step
\* of the worker that registered that district, after the ledger confirmed that
\* district's batchRegisterVoters, and before the voting phase; whenever a district
\* has an assignment its length is the district's voter count.
StrategyAssignmentWrittenOnce ==
    [][ \A k \in DOMAIN districts :
          /\ ( \/ districts'[k].has_strategies # districts[k].has_strategies
               \/ districts'[k].strategies # districts[k].strategies )
             => /\ ~districts[k].has_strategies
                /\ districts'[k].has_strategies
                /\ pc = "gather_registrations"
                /\ k \in DOMAIN reg
                /\ ~Finished(reg[k])
                /\ Finished(reg'[k])
                /\ reg'[k].result.success
                /\ \A j \in DOMAIN reg : j # k => reg'[j] = reg[j]
                /\ districts[k].id \in ledger.batches
          /\ districts'[k].has_strategies
             => Len(districts'[k].strategies) = Len(districts'[k].voters) ]_vars

StrategyAssignmentWrittenOnceWitness ==
    /\ pc = "returned"
    /\ Len(districts) >= 2
    /\ \A k \in DOMAIN districts : districts[k].has_strategies
    /\ \E k \in DOMAIN districts : Len(districts[k].strategies) >= 2

\* the vote task of voter v was created with the address, the position and the
\* strategy (which names the score vector generated at that position) of one and
\* the same position of the voter's district
Paired(v) ==
    \E k \in DOMAIN districts :
      /\ districts[k].id = vote[v].district_id
      /\ vote[v].voter_index + 1 \in DOMAIN districts[k].voters
      /\ districts[k].voters[vote[v].voter_index + 1] = vote[v].voter_address
      /\ vote[v].voter_address = v - 1
      /\ vote[v].voter_index + 1 \in DOMAIN districts[k].strategies
      /\ districts[k].strategies[vote[v].voter_index + 1] = vote[v].strategy

VotingOver ==
    \/ pc \in { "endVoting", "collectResults", "getElectionResults", "returned" }
    \/ /\ pc = "raised"
       /\ error.at \in { "run_parallel_voting", "endVoting", "collectResults",
                         "getElectionResults" }

\* C29: in the voting phase the voter at position i of a district is scored with
\* the strategy at position i of the district's assignment and exactly one castVote
\* is submitted for that voter, from the voter's own address with the vector
\* generated for position i: every vote task is paired, no voter's castVote is sent
\* twice, and when the voting phase is over every voter has had a vote task.
EveryVoterVotesOnce ==
    /\ \A v \in DOMAIN vote :
         Submitted(vote[v]) => /\ Paired(v)
                               /\ vote[v].attempts <= 1
                               /\ Finished(vote[v]) => vote[v].attempts = 1
    /\ VotingOver => \A v \in DOMAIN vote : Submitted(vote[v])

\* C30: once a district's voting has completed, its report holds one outcome per
\* voter, in voter-index order, each tagged with the district's id; successfulVotes
\* is the number of outcomes with success true, so 0 <= successfulVotes <=
\* totalVoters, and totalVoters is the district's voter count.
DistrictReportComplete ==
    \A k \in DOMAIN coro :
      coro[k].state = "done" =>
        LET report == reports[k]
            n == Len(districts[k].voters)
        IN /\ report.districtId = districts[k].id
           /\ report.totalVoters = n
           /\ Len(report.results) = n
           /\ \A i \in 1..n : /\ report.results[i].voter = i - 1
                              /\ report.results[i].district = districts[k].id
           /\ report.successfulVotes =
                Cardinality({ i \in 1..n : report.results[i].success })
           /\ 0 <= report.successfulVotes
           /\ report.successfulVotes <= report.totalVoters

DistrictReportCompleteWitness ==
    \E k \in DOMAIN coro :
      /\ coro[k].state = "done"
      /\ reports[k].totalVoters >= 2
      /\ reports[k].successfulVotes = 1
      /\ ~reports[k].results[1].success

\* ------------------------------------------- register_voters_parallel called on its own
\* the district lists the registration is called with: one or two districts of zero
\* to two voters each, sliced from the wallet list as the createDistrict loop does
DistrictSizeLists == UNION { [1..n -> 0..2] : n \in 1..2 }

RegistrationInit ==
    /\ \E sizes \in DistrictSizeLists, strategies_config \in WeightMaps :
         /\ voters_per_district_list = sizes
         /\ districts = [k \in 1..Len(sizes) |->
                           [ id |-> k - 1,
                             voters |-> DistrictWallets(sizes, k - 1),
                             has_strategies |-> FALSE,
                             strategies |-> << >> ]]
         /\ config = [number_of_voters |-> SumSeq(sizes),
                      number_of_districts |-> Len(sizes),
                      number_of_candidates |-> 0,
                      voting_strategies |-> strategies_config]
         /\ ledger = [state |-> "registration", candidates |-> 0, districts |-> Len(sizes),
                      registered |-> 0, batches |-> {}, votes |-> 0]
         /\ calls = [k \in CallKinds |->
                       CASE k \in { "deploy", "setGradingScale", "startRegistration" } -> 1
                         [] k = "createDistrict" -> Len(sizes)
                         [] k = "fund" -> SumSeq(sizes)
                         [] OTHER -> 0]
    /\ pc = "register_voters_parallel"
    /\ error = NoError
    /\ gas_tracker = [gas |-> 0, eth |-> 0]
    /\ charged = [gas |-> 0, eth |-> 0]
    /\ candidates = << >>
    /\ added = << >>
    /\ reg = << >>
    /\ registration_results = << >>
    /\ coro = << >>
    /\ vote = << >>
    /\ reports = << >>
    /\ invocation = None
    /\ response = None

RegistrationNext ==
    \/ RegisterVotersParallel
    \/ \E k \in 1..MaxDistricts :
         \/ RegisterCall(k)
         \/ RegisterGasLoad(k)
         \/ RegisterGasStore(k)
         \/ RegisterEthLoad(k)
         \/ RegisterEthStore(k)
    \/ GatherRegistrations
    \/ CheckRegistrationResults

RegistrationSpec == RegistrationInit /\ [][RegistrationNext]_vars

\* C31: register_district_sync on a district with zero voters is a no-op success:
\* its one step submits no ledger call, leaves the gas tracker (and the ledger)
\* unchanged and returns success with votersRegistered = 0, so the district adds 0
\* to the expected total of the consistency check.
ZeroVoterDistrictSkipped ==
    [][ \A k \in DOMAIN reg :
          ( /\ Len(districts[k].voters) = 0
            /\ reg[k].pc = "call"
            /\ reg'[k].pc # "call" )
          => /\ Finished(reg'[k])
             /\ reg'[k].attempts = 0
             /\ reg'[k].result.success
             /\ reg'[k].result.votersRegistered = 0
             /\ reg'[k].result.districtId = districts[k].id
             /\ UNCHANGED << calls, ledger, gas_tracker, charged, districts >> ]_vars

ZeroVoterDistrictSkippedWitness ==
    /\ pc = "startVoting"
    /\ \E j, k \in DOMAIN registration_results :
         /\ Len(districts[j].voters) = 0
         /\ registration_results[j].success
         /\ registration_results[j].votersRegistered = 0
         /\ Len(districts[k].voters) > 0
         /\ registration_results[k].success
         /\ ledger.registered = Len(districts[k].voters)

\* C32: register_district_sync reports success for a non-empty district exactly when
\* the ledger confirmed that district's batchRegisterVoters, whatever the weight map
\* (an all-zero one included); hence the consistency check never fails.
SuccessIffConfirmed ==
    /\ \A k \in DOMAIN reg :
         (Finished(reg[k]) /\ Len(districts[k].voters) > 0)
           => (reg[k].result.success <=> districts[k].id \in ledger.batches)
    /\ ~(pc = "raised" /\ error.at = "check_registration_results")

\* C33: no castVote is ever submitted for a voter of a district whose registration
\* outcome was a failure: every vote task, and so every castVote sent, belongs to a
\* district whose batchRegisterVoters the ledger confirmed and whose outcome reports
\* success.
VotesOnlyInRegisteredDistricts ==
    \A v \in DOMAIN vote :
      Submitted(vote[v]) =>
        \E k \in DOMAIN districts :
          /\ districts[k].id = vote[v].district_id
          /\ \E i \in DOMAIN districts[k].voters : districts[k].voters[i] = v - 1
          /\ registration_results[k].success
          /\ districts[k].id \in ledger.batches

VotesOnlyInRegisteredDistrictsWitness ==
    /\ \E k \in DOMAIN registration_results : ~registration_results[k].success
    /\ \E v \in DOMAIN vote : Finished(vote[v]) /\ vote[v].result.success

InFlight(w) == Submitted(w) /\ ~Finished(w)

\* C34: when run_election has terminated, by returning a response or by raising, no
\* registration or vote operation it started is still in flight or queued: every
\* ledger call the run submitted is confirmed or failed.
NothingInFlightAtEnd ==
    pc \in { "returned", "raised" } =>
      /\ \A k \in DOMAIN reg : ~InFlight(reg[k])
      /\ \A v \in DOMAIN vote : ~InFlight(vote[v])

\* the attempt of worker w ended in a failure outcome
Failed(w) == Finished(w) /\ ~w.result.success

\* C35: a failed operation leaves the gas tracker unchanged: a batchRegisterVoters
\* or castVote attempt that ends in a failure outcome has added nothing to the
\* tracker (the worker holds no receipt amount) and its outcome carries no cost
\* figure; the counters change only by the receipt amounts of confirmed calls.
FailedOperationsFree ==
    [][ /\ \A k \in DOMAIN reg' :
             Failed(reg'[k]) => /\ reg'[k].gas_used = 0
                                /\ "gasUsed" \notin DOMAIN reg'[k].result
        /\ \A v \in DOMAIN vote' :
             Failed(vote'[v]) => /\ vote'[v].gas_used = 0
                                 /\ "gasUsed" \notin DOMAIN vote'[v].result
        /\ gas_tracker' # gas_tracker
             => /\ gas_tracker'.gas - gas_tracker.gas = charged'.gas - charged.gas
                /\ gas_tracker'.eth - gas_tracker.eth = charged'.eth - charged.eth ]_vars

\* C36: in a run of run_election every district is assigned at least one voter, so
\* no registration worker takes the zero-voter skip branch, and every district whose
\* registration reports success has a non-empty strategy assignment.
EveryDistrictHasVoters ==
    /\ \A k \in DOMAIN voters_per_district_list : voters_per_district_list[k] >= 1
    /\ \A k \in DOMAIN districts : Len(districts[k].voters) >= 1
    /\ \A k \in DOMAIN reg :
         Finished(reg[k]) =>
           /\ "skipped" \notin DOMAIN reg[k].result
           /\ reg[k].attempts = 1
           /\ reg[k].result.success => /\ districts[k].has_strategies
                                       /\ Len(districts[k].strategies) >= 1

EveryDistrictHasVotersWitness ==
    /\ pc = "startVoting"
    /\ Len(districts) >= 2
    /\ \A k \in DOMAIN registration_results : registration_results[k].success

\* floor of raw[i] = (w[i] / total_w) * n, and whether raw[i] has a fractional part
FloorSeats(n, w, i) == (w[i] * n) \div SumSeq(w)
HasRemainder(n, w, i) == (w[i] * n) % SumSeq(w) > 0

\* C37: in distribute_strategies_to_voters, for every n and every weight map with
\* non-negative weights and a positive total, a strategy of weight zero is assigned
\* to no voter, no strategy gets fewer than floor(raw) (so never a negative count)
\* or more than floor(raw) + 1 seats, and only a strategy with a positive
\* fractional remainder gets the extra seat.
SeatsWithinFloorPlusOne ==
    LET n == invocation.args[1]
        w == invocation.args[2]
        pool == invocation.outcome.value
    IN  (Called("distribute_strategies_to_voters") /\ SumSeq(w) > 0) =>
          \A i \in 1..NumStrategies :
            /\ w[i] = 0 => PoolCount(pool, i) = 0
            /\ PoolCount(pool, i) >= FloorSeats(n, w, i)
            /\ FloorSeats(n, w, i) >= 0
            /\ PoolCount(pool, i) <= FloorSeats(n, w, i) + 1
            /\ PoolCount(pool, i) = FloorSeats(n, w, i) + 1 => HasRemainder(n, w, i)

\* two voters under weights 1 : 0 : 2 (shares 0.67, 0, 1.33): the leftover seat
\* went to the first strategy and none to the zero-weight one
SeatsWithinFloorPlusOneWitness ==
    /\ Called("distribute_strategies_to_voters")
    /\ invocation.args[1] = 2
    /\ invocation.args[2] = << 1, 0, 2, 0, 0, 0, 0, 0 >>
    /\ PoolCount(invocation.outcome.value, 1) = 1
    /\ PoolCount(invocation.outcome.value, 2) = 0
    /\ PoolCount(invocation.outcome.value, 3) = 1

\* C38: the two copies of the scoring library agree: for every score range with
\* scoreMin < scoreMax and every non-empty candidate list, score_bullet,
\* score_strategic_undervoting, score_biased_towards_experienced_candidates and
\* score_biased_towards_young_candidates of src/simulation.py admit exactly the
\* outcomes the functions of the same name in src/app/simulation.py admit.
DraftsAgree ==
    ( /\ Called("generate_scores")
      /\ invocation.args[1] \in { "bullet", "strategic_undervoting",
                                  "biased_towards_experienced_candidates",
                                  "biased_towards_young_candidates" }
      /\ invocation.args[2] < invocation.args[3]
      /\ Len(invocation.args[4]) > 0 )
    => draft_generate_scores(invocation.args[1], invocation.args[2],
                             invocation.args[3], invocation.args[4])
         = generate_scores(invocation.args[1], invocation.args[2],
                           invocation.args[3], invocation.args[4])

\* ---------------------------------------------------------------- termination
\* every ledger call returns and the event loop and the pool threads keep running:
\* a step that can be taken is eventually taken
FairSpec == Spec /\ WF_vars(Next)

\* a request calculate_voters_per_district accepts and candidates.csv can serve,
\* with a positive total weight
ValidConfiguration ==
    /\ VotersPerDistrictError(config.number_of_voters, config.number_of_districts) = "ok"
    /\ config.number_of_candidates \in 0..SourceSize
    /\ SumSeq(config.voting_strategies) > 0

\* the run ended because the node was unreachable or the ledger rejected one of
\* the lifecycle calls run_election makes itself
LifecycleRejected ==
    /\ pc = "raised"
    /\ \/ error.type = "LedgerError"
       \/ error.type = "AssertionError" /\ error.at = "connect"

\* C39: for every valid configuration, with every ledger call returning and fair
\* scheduling, run_election eventually terminates, and unless the ledger refuses a
\* lifecycle call it terminates with a response, whatever registration and vote
\* calls failed.
RunEndsWithResponse ==
    ValidConfiguration => <>(pc = "returned" \/ LifecycleRejected)

====
